---- MODULE Spec2Model ----
(***************************************************************************)
(* A model of the streaming search of simple-ldap (src/src/lib.rs):        *)
(* LdapClient::streaming_search, LdapClient::streaming_search_paged,       *)
(* to_native_stream (stream::try_unfold over a StreamDropWrapper) and      *)
(* StreamDropWrapper::drop / cleanup, together with the transport          *)
(* (ldap3 SearchStream, its PagedResults adapter) and the directory        *)
(* server they talk to.                                                    *)
(*                                                                         *)
(* One behaviour follows one search of one client: the call that opens     *)
(* the stream, the caller's polls, the messages of the server, the loss    *)
(* of the connection, and the drop of the stream.                          *)
(***************************************************************************)
EXTENDS Integers, Sequences, FiniteSets, TLC

\* ------------------------------------------------------------------ bounds
MaxN == 3          \* largest result set of the directory
MaxPageSize == 3   \* largest page size a caller passes
MaxEndPolls == 2   \* polls of a stream that has already ended

\* --------------------------------------------------------------- constants
RcUserCancelled == 88

FailCodes == {4, 12}   \* sizeLimitExceeded, unavailableCriticalExtension

NoRes == [rc |-> -1, cookie |-> 0]

EmptyCookie == 0

VARIABLES
    pc,           \* "none" | "nostream" | "idle" | "polling" | "ended" | "dropped"
    paged,        \* TRUE: streaming_search_paged, FALSE: streaming_search
    page_size,    \* the page_size argument
    resultSet,    \* the entries the directory holds for the request, in server order
    finishCloses, \* transport build: finish() closes a stream that is not Done
    state,        \* SearchStream::state()
    res,          \* SearchStream.res, the stored final result
    rx,           \* items the connection has queued for the stream
    rxOpen,       \* SearchStream.rx is Some
    connAlive,    \* the connection to the server is up
    srv,          \* the server's side of the search
    last_id,      \* Ldap::last_id() of the stream's handle
    sent,         \* requests written to the connection, in order
    delivered,    \* entries the caller got as Ok items
    yields,       \* what the polls answered, in order: "item" | "err" | "end"
    endPolls,     \* polls made after the stream ended
    cleanupRuns,  \* invocations of StreamDropWrapper::cleanup
    cleanupEntry, \* the state cleanup found on entry and the result code finish gave it
    cleanupLog    \* what cleanup did, in order

\* The streaming search of one client handle.
streamVars == <<pc, paged, page_size, resultSet, finishCloses, state, res, rx, rxOpen,
                connAlive, srv, last_id, sent, delivered, yields, endPolls,
                cleanupRuns, cleanupEntry, cleanupLog>>

VARIABLES
    cpc,          \* adapter chain: "off" | "new" | "rejected" | "built" | "started" | "drained" | "failed"
    resendsAll,   \* transport build: a continuation carries every control of the request before it
    sortNew,      \* the call of ServerSideSort::new: its argument and its result
    adapters,     \* the adapter chain of the search, in list order
    controls,     \* Ldap.controls of the stream's handle: the outgoing control list
    requests,     \* the control lists of the search requests dispatched, in order
    chainStart    \* the last run of start down the chain

sortVars == <<cpc, resendsAll, sortNew, adapters, controls, requests, chainStart>>

VARIABLES
    payload,      \* the value of a sort response control the server sent
    decoded       \* what decoding it gave

codecVars == <<payload, decoded>>

VARIABLES
    place,        \* where each client of the pool is: "pool" | "held"
    streams,      \* the live streams that borrow each client
    call,         \* the last single-record search: its client and what the server did
    answer,       \* what that search returned
    session       \* the connection of each client: "unmade" | "manager" | "user" | "anonymous" | "closed"

clientVars == <<place, streams, call, answer, session>>

VARIABLES
    wcall,        \* the last update / delete / group operation and what the server did
    wanswer,      \* what that operation returned
    wsent         \* the server operations it issued, in order, with their outcome

writeVars == <<wcall, wanswer, wsent>>

VARIABLES
    auth,         \* the last call of authenticate: its client and what the server did
    authAnswer    \* what it returned and whether it attempted the bind

authVars == <<auth, authAnswer>>

VARIABLES
    dnText,       \* the string given to SimpleDN::from_str
    dn,           \* the SimpleDN at hand: what from_str, parent, get_starting_from gave
    dnType        \* what get_type gave for it

dnVars == <<dnText, dn, dnType>>

VARIABLES
    lhs,          \* a SimpleDN
    rhs,          \* another SimpleDN
    ordering      \* what lhs.partial_cmp(rhs) gave

orderVars == <<lhs, rhs, ordering>>

VARIABLES
    sres,         \* the result the sort adapter looks at: "None" | "NoControl" | "Control"
    inner,        \* the adapter call and what the inner stream returned to it
    adapterOut    \* what the adapter returned

adapterVars == <<sres, inner, adapterOut>>

\* The parts of the sort adapter and of the connection that are modelled
\* on their own.
VARIABLES
    sort_key_list, \* ServerSideSortRequest.sort_key_list
    raw            \* the RawControl made of it

encVars == <<sort_key_list, raw>>

VARIABLES
    singleThread, \* the runtime has one thread for the tasks and the connection driver
    nextId,       \* the next message id of the connection (shared by its handles)
    lastIds,      \* Ldap::last_id() of each clone's client handle and stream handle
    phase,        \* each clone's task: "idle" | "streaming" | "blocked" | "dropped"
    sstate,       \* SearchStream::state() of each clone's stream
    opq,          \* operations handed to the connection driver, not yet written
    wire,         \* operations written to the connection, in order
    replied       \* ids of the operations the driver has answered to their caller

connVars == <<singleThread, nextId, lastIds, phase, sstate, opq, wire, replied>>

moreVars == <<adapterVars, encVars, connVars>>

\* The operations that are modelled apart from the searches.
restVars == <<writeVars, authVars, dnVars, orderVars, moreVars>>

vars == <<streamVars, sortVars, codecVars, clientVars, restVars>>

\* What a step of the streaming search leaves alone.
notStream == <<sortVars, codecVars, clientVars, restVars>>

\* ------------------------------------------------------------------ helpers
Max(a, b) == IF a > b THEN a ELSE b

CeilDiv(n, p) == (n + p - 1) \div p

Range(s) == {s[i] : i \in 1..Len(s)}

\* Result sets: sequences of distinct entries.
ResultSets ==
    UNION {{s \in [1..n -> 1..MaxN] : \A i, j \in 1..n : i # j => s[i] # s[j]} : n \in 0..MaxN}

IsPrefix(s, t) == Len(s) <= Len(t) /\ \A i \in 1..Len(s) : s[i] = t[i]

SearchRequests == {i \in 1..Len(sent) : sent[i].op = "search"}

AbandonRequests == {i \in 1..Len(sent) : sent[i].op = "abandon"}

\* What the last poll answered.
LastYield == IF yields = <<>> THEN "nothing" ELSE yields[Len(yields)]

\* The stream has yielded an Err item.
Erred == "err" \in Range(yields)

\* LdapResult::success(): success and referral are Ok.
SuccessRc(rc) == rc \in {0, 10}

\* ------------------------------------------------------------ wire messages
SearchReq(id, cookie, size, ctl) ==
    [op |-> "search", id |-> id, cookie |-> cookie, size |-> size, paged |-> ctl, target |-> 0]

AbandonReq(id, target) ==
    [op |-> "abandon", id |-> id, cookie |-> EmptyCookie, size |-> 0, paged |-> FALSE, target |-> target]

EntryItem(e) == [kind |-> "entry", entry |-> e, rc |-> 0, cookie |-> EmptyCookie]

DoneItem(rc, cookie) == [kind |-> "done", entry |-> 0, rc |-> rc, cookie |-> cookie]

\* -------------------------------------------------------------------- Init
\* A client handle after LdapClient::new, before any search.
StreamInit ==
    /\ pc = "none"
    /\ paged = FALSE
    /\ page_size = 0
    /\ resultSet = <<>>
    /\ finishCloses \in BOOLEAN
    /\ state = "Fresh"
    /\ res = NoRes
    /\ rx = <<>>
    /\ rxOpen = FALSE
    /\ connAlive = TRUE
    /\ srv = [active |-> FALSE, reqId |-> 0, pos |-> 0, left |-> 0]
    /\ last_id = 1      \* the bind of LdapClient::new was operation 1
    /\ sent = <<>>
    /\ delivered = <<>>
    /\ yields = <<>>
    /\ endPolls = 0
    /\ cleanupRuns = 0
    /\ cleanupEntry = [state |-> "none", rc |-> -1]
    /\ cleanupLog = <<>>

\* ---------------------------------------------------------------- transport
\* SearchStream::finish on a stream without a pending page: a stream read to
\* its end hands out the server's result and is Closed; any other stream
\* answers the synthetic "user cancelled" result.
FinishInner(st, r) ==
    IF st = "Done"
    THEN [state |-> "Closed", rc |-> r.rc]
    ELSE [state |-> IF finishCloses THEN "Closed" ELSE st, rc |-> RcUserCancelled]

\* A match that takes the user-cancelled result for an error like any other.
FinishLogCancelIsError(rc) ==
    IF SuccessRc(rc) THEN <<"finish">> ELSE <<"finish", "finish_error_logged">>

\* What the match on finish_result.success() logs.
FinishLog(rc) ==
    IF SuccessRc(rc) THEN <<"finish">>
    ELSE IF rc = RcUserCancelled THEN <<"finish">>
    ELSE <<"finish", "finish_error_logged">>

\* A match that cancels the operation of a stream in Error too.
CleanupArmAbandonsInError(st) ==
    CASE st \in {"Done", "Closed"} -> "nothing"
      [] st \in {"Fresh", "Active", "Error"} -> "abandon"

\* A match whose first arm names Done alone.
CleanupArmDoneOnly(st) ==
    CASE st = "Done" -> "nothing"
      [] st = "Error" -> "log"
      [] st \in {"Fresh", "Active", "Closed"} -> "abandon"

\* The arm of the match on search_stream.state() that cleanup takes.
CleanupArm(st) ==
    CASE st \in {"Done", "Closed"} -> "nothing"
      [] st = "Error" -> "log"
      [] st \in {"Fresh", "Active"} -> "abandon"

\* The id of the first request of the search.
FirstSearchId == sent[CHOOSE i \in 1..Len(sent) : \A j \in 1..(i - 1) : sent[j].op # "search"].id

\* search_stream.ldap_handle().last_id(): the id of the last operation
\* issued on the handle of the stream.
LastId == last_id

\* A cleanup that marks the stream Closed itself when it is done.
CleanupWritesClosed(st, r) ==
    LET f == FinishInner(st, r)
        arm == CleanupArm(f.state)
        msgid == LastId
    IN  /\ cleanupRuns' = cleanupRuns + 1
        /\ cleanupEntry' = [state |-> st, rc |-> f.rc]
        /\ state' = "Closed"
        /\ res' = NoRes
        /\ rx' = <<>>
        /\ rxOpen' = FALSE
        /\ IF arm = "abandon"
           THEN IF connAlive
                THEN /\ sent' = Append(sent, AbandonReq(last_id + 1, msgid))
                     /\ last_id' = last_id + 1
                     /\ srv' = IF srv.reqId = msgid THEN [srv EXCEPT !.active = FALSE] ELSE srv
                     /\ cleanupLog' = cleanupLog \o FinishLog(f.rc) \o <<"recheck", "abandon">>
                ELSE /\ UNCHANGED <<sent, last_id, srv>>
                     /\ cleanupLog' = cleanupLog \o FinishLog(f.rc)
                                        \o <<"recheck", "abandon", "abandon_error_logged">>
           ELSE /\ UNCHANGED <<sent, last_id, srv>>
                /\ cleanupLog' = cleanupLog \o FinishLog(f.rc) \o <<"recheck">>
                                   \o (IF arm = "log" THEN <<"error_state_logged">> ELSE <<>>)

\* StreamDropWrapper::cleanup, entered with the stream in state st holding
\* the final result r.
Cleanup(st, r) ==
    LET f == FinishInner(st, r)
        arm == CleanupArm(f.state)
        msgid == LastId
    IN  /\ cleanupRuns' = cleanupRuns + 1
        /\ cleanupEntry' = [state |-> st, rc |-> f.rc]
        /\ state' = f.state
        /\ res' = NoRes
        /\ rx' = <<>>
        /\ rxOpen' = FALSE
        /\ IF arm = "abandon"
           THEN IF connAlive
                THEN /\ sent' = Append(sent, AbandonReq(last_id + 1, msgid))
                     /\ last_id' = last_id + 1
                     /\ srv' = IF srv.reqId = msgid THEN [srv EXCEPT !.active = FALSE] ELSE srv
                     /\ cleanupLog' = cleanupLog \o FinishLog(f.rc) \o <<"recheck", "abandon">>
                ELSE /\ UNCHANGED <<sent, last_id, srv>>
                     /\ cleanupLog' = cleanupLog \o FinishLog(f.rc)
                                        \o <<"recheck", "abandon", "abandon_error_logged">>
           ELSE /\ UNCHANGED <<sent, last_id, srv>>
                /\ cleanupLog' = cleanupLog \o FinishLog(f.rc) \o <<"recheck">>
                                   \o (IF arm = "log" THEN <<"error_state_logged">> ELSE <<>>)

\* ------------------------------------------------------------------ caller
\* An adapter built with a size one larger than the caller's.
PagedResultsSizeOffByOne(p) == p + 1

\* PagedResults::new(page_size): the size the adapter asks the server for.
PagedResultsSize(p) == p

\* LdapClient::streaming_search (isPaged = FALSE) and
\* LdapClient::streaming_search_paged (isPaged = TRUE) on a live connection.
StreamingSearch(isPaged, p, rs) ==
    /\ UNCHANGED notStream
    /\ pc = "none"
    /\ connAlive
    /\ paged' = isPaged
    /\ page_size' = IF isPaged THEN p ELSE 0
    /\ resultSet' = rs
    /\ last_id' = last_id + 1
    /\ sent' = Append(sent, SearchReq(last_id + 1, EmptyCookie,
                                  IF isPaged THEN PagedResultsSize(p) ELSE 0, isPaged))
    /\ srv' = [active |-> TRUE, reqId |-> last_id + 1, pos |-> 0,
               left |-> IF isPaged THEN PagedResultsSize(p) ELSE Len(rs)]
    /\ state' = "Active"
    /\ rxOpen' = TRUE
    /\ pc' = "idle"
    /\ UNCHANGED <<finishCloses, res, rx, connAlive, delivered, yields, endPolls,
                   cleanupRuns, cleanupEntry, cleanupLog>>

\* The same calls on a dead connection: map_err to Error::Query, no stream.
StartFails ==
    /\ UNCHANGED notStream
    /\ pc = "none"
    /\ ~connAlive
    /\ pc' = "nostream"
    /\ UNCHANGED <<state, paged, page_size, resultSet, finishCloses, res, rx, rxOpen,
                   connAlive, srv, last_id, sent, delivered, yields, endPolls,
                   cleanupRuns, cleanupEntry, cleanupLog>>

\* stream::try_unfold: what is left of the stream after the closure of
\* to_native_stream answered. Only Ok(Some((item, state))) hands the wrapper
\* back; after Ok(None) and Err the stream holds neither state nor future.
TryUnfoldAfter(step) ==
    IF step = "item" THEN "idle" ELSE "ended"

\* poll_next of a stream that holds its state: the closure is called and
\* awaits search_stream.next().
Poll ==
    /\ UNCHANGED notStream
    /\ pc = "idle"
    /\ pc' = "polling"
    /\ UNCHANGED <<paged, page_size, resultSet, finishCloses, state, res, rx, rxOpen,
                   connAlive, srv, last_id, sent, delivered, yields, endPolls,
                   cleanupRuns, cleanupEntry, cleanupLog>>

\* A stream that answers a poll after its end with the Err item again.
PollEndedRepeatsErr ==
    /\ UNCHANGED notStream
    /\ pc = "ended"
    /\ endPolls < MaxEndPolls
    /\ endPolls' = endPolls + 1
    /\ yields' = Append(yields, IF "err" \in Range(yields) THEN "err" ELSE "end")
    /\ UNCHANGED <<pc, paged, page_size, resultSet, finishCloses, state, res, rx,
                   rxOpen, connAlive, srv, last_id, sent, delivered, cleanupRuns,
                   cleanupEntry, cleanupLog>>

\* poll_next of a stream that holds neither state nor future: Ready(None).
PollEnded ==
    /\ UNCHANGED notStream
    /\ pc = "ended"
    /\ endPolls < MaxEndPolls
    /\ endPolls' = endPolls + 1
    /\ yields' = Append(yields, "end")
    /\ UNCHANGED <<pc, paged, page_size, resultSet, finishCloses, state, res, rx,
                   rxOpen, connAlive, srv, last_id, sent, delivered, cleanupRuns,
                   cleanupEntry, cleanupLog>>

\* next() receives an entry: Ok(Some(result_entry)), the Record is yielded.
NextEntry ==
    /\ UNCHANGED notStream
    /\ pc = "polling"
    /\ rx # <<>>
    /\ Head(rx).kind = "entry"
    /\ delivered' = Append(delivered, Head(rx).entry)
    /\ rx' = Tail(rx)
    /\ yields' = Append(yields, "item")
    /\ pc' = TryUnfoldAfter("item")
    /\ UNCHANGED <<paged, page_size, resultSet, finishCloses, state, res, rxOpen,
                   connAlive, srv, last_id, sent, endPolls, cleanupRuns, cleanupEntry,
                   cleanupLog>>

\* An adapter that asks for another page whatever the cookie.
PageContinuesOnEmptyCookie(item) == paged

\* PagedResults::next: the page ended and its control carries a cookie.
PageContinues(item) == paged /\ item.cookie # EmptyCookie

\* The cookie of the continuation request: the last one received.
ContinuationCookie(item) == item.cookie

\* An adapter that asks for the next page as soon as the result of the
\* current one has arrived, with entries of the page still undelivered.
NextPagePrefetch ==
    /\ UNCHANGED notStream
    /\ pc \in {"idle", "polling"}
    /\ connAlive
    /\ \E i \in 1..Len(rx) :
          /\ rx[i].kind = "done"
          /\ PageContinues(rx[i])
          /\ last_id' = last_id + 1
          /\ sent' = Append(sent, SearchReq(last_id + 1, ContinuationCookie(rx[i]),
                                            PagedResultsSize(page_size), TRUE))
          /\ srv' = [active |-> TRUE, reqId |-> last_id + 1,
                     pos |-> ContinuationCookie(rx[i]),
                     left |-> PagedResultsSize(page_size)]
          /\ rx' = SubSeq(rx, 1, i - 1)
          /\ res' = [rc |-> rx[i].rc, cookie |-> rx[i].cookie]
    /\ rxOpen' = TRUE
    /\ state' = "Active"
    /\ UNCHANGED <<pc, paged, page_size, resultSet, finishCloses, connAlive, delivered,
                   yields, endPolls, cleanupRuns, cleanupEntry, cleanupLog>>

\* The adapter's next() gets Ok(None) from the stream for a page that has
\* a successor: the stream has taken the result of the page, which made it
\* Done and closed its receiver, and the adapter is about to start it
\* again (no item is yielded).
NextPageResult ==
    /\ UNCHANGED notStream
    /\ pc = "polling"
    /\ state = "Active"
    /\ rx # <<>>
    /\ Head(rx).kind = "done"
    /\ PageContinues(Head(rx))
    /\ state' = "Done"
    /\ res' = [rc |-> Head(rx).rc, cookie |-> Head(rx).cookie]
    /\ rx' = <<>>
    /\ rxOpen' = FALSE
    /\ UNCHANGED <<pc, paged, page_size, resultSet, finishCloses, connAlive, srv,
                   last_id, sent, delivered, yields, endPolls, cleanupRuns,
                   cleanupEntry, cleanupLog>>

\* The adapter starts the stream again with the cookie of the page: the
\* continuation request is sent, the stream is Active once more and next()
\* goes on waiting.
NextPage ==
    /\ UNCHANGED notStream
    /\ pc = "polling"
    /\ state = "Done"
    /\ connAlive
    /\ last_id' = last_id + 1
    /\ sent' = Append(sent, SearchReq(last_id + 1, ContinuationCookie(res),
                                  PagedResultsSize(page_size), TRUE))
    /\ srv' = [active |-> TRUE, reqId |-> last_id + 1,
               pos |-> ContinuationCookie(res),
               left |-> PagedResultsSize(page_size)]
    /\ rx' = <<>>
    /\ rxOpen' = TRUE
    /\ state' = "Active"
    /\ UNCHANGED <<pc, paged, page_size, resultSet, finishCloses, res, connAlive,
                   delivered, yields, endPolls, cleanupRuns, cleanupEntry, cleanupLog>>

\* The continuation request cannot be written: next() answers Err, the
\* stream yields the Err item and the closure drops the wrapper.
NextPageFails ==
    /\ UNCHANGED notStream
    /\ pc = "polling"
    /\ state = "Done"
    /\ ~connAlive
    /\ Cleanup("Error", res)
    /\ yields' = Append(yields, "err")
    /\ pc' = TryUnfoldAfter("err")
    /\ UNCHANGED <<paged, page_size, resultSet, finishCloses, connAlive, delivered,
                   endPolls>>

\* next() receives the final result: the stream is Done and next() answers
\* Ok(None) whatever the result code; the stream ends and the closure drops
\* the wrapper.
NextDone ==
    /\ UNCHANGED notStream
    /\ pc = "polling"
    /\ rx # <<>>
    /\ Head(rx).kind = "done"
    /\ ~PageContinues(Head(rx))
    /\ Cleanup("Done", [rc |-> Head(rx).rc, cookie |-> Head(rx).cookie])
    /\ yields' = Append(yields, "end")
    /\ pc' = TryUnfoldAfter("end")
    /\ UNCHANGED <<paged, page_size, resultSet, finishCloses, connAlive, delivered,
                   endPolls>>

\* next() finds the connection gone: Err, the stream yields
\* Error::Query and the closure drops the wrapper.
NextError ==
    /\ UNCHANGED notStream
    /\ pc = "polling"
    /\ state = "Active"
    /\ rx = <<>>
    /\ ~connAlive
    /\ Cleanup("Error", res)
    /\ yields' = Append(yields, "err")
    /\ pc' = TryUnfoldAfter("err")
    /\ UNCHANGED <<paged, page_size, resultSet, finishCloses, connAlive, delivered,
                   endPolls>>

\* A drop that cleans up only the wrapper held in the stream's state, not
\* the one held by the pending future of a poll.
DropHeldStateOnly ==
    /\ UNCHANGED notStream
    /\ pc \in {"idle", "polling", "ended"}
    /\ pc' = "dropped"
    /\ IF pc # "idle"
       THEN UNCHANGED <<state, res, rx, rxOpen, srv, last_id, sent, cleanupRuns,
                        cleanupEntry, cleanupLog>>
       ELSE Cleanup(state, res)
    /\ UNCHANGED <<paged, page_size, resultSet, finishCloses, connAlive, delivered,
                   yields, endPolls>>

\* A drop whose cleanup can be run a second time on the same stream.
DropAgain ==
    /\ UNCHANGED notStream
    /\ pc \in {"idle", "polling", "ended", "dropped"}
    /\ cleanupRuns < 2
    /\ pc' = "dropped"
    /\ IF pc = "ended"
       THEN UNCHANGED <<state, res, rx, rxOpen, srv, last_id, sent, cleanupRuns,
                        cleanupEntry, cleanupLog>>
       ELSE Cleanup(state, res)
    /\ UNCHANGED <<paged, page_size, resultSet, finishCloses, connAlive, delivered,
                   yields, endPolls>>

\* The caller drops the stream. A stream that still holds the wrapper (in
\* its state, or in the pending future of a poll) drops it:
\* StreamDropWrapper::drop runs block_on(cleanup()).
Drop ==
    /\ UNCHANGED notStream
    /\ pc \in {"idle", "polling", "ended"}
    /\ pc' = "dropped"
    /\ IF pc = "ended"
       THEN UNCHANGED <<state, res, rx, rxOpen, srv, last_id, sent, cleanupRuns,
                   cleanupEntry, cleanupLog>>
       ELSE Cleanup(state, res)
    /\ UNCHANGED <<paged, page_size, resultSet, finishCloses, connAlive, delivered,
                   yields, endPolls>>

\* ------------------------------------------------------------------ server
\* What reaches the stream's channel: an item for a stream that has closed
\* its receiver is discarded.
Queue(item) == IF rxOpen THEN Append(rx, item) ELSE rx

\* The server sends the next entry of the current page.
ServerEntry ==
    /\ UNCHANGED notStream
    /\ srv.active
    /\ connAlive
    /\ srv.left > 0
    /\ srv.pos < Len(resultSet)
    /\ rx' = Queue(EntryItem(resultSet[srv.pos + 1]))
    /\ srv' = [srv EXCEPT !.pos = @ + 1, !.left = @ - 1]
    /\ UNCHANGED <<pc, paged, page_size, resultSet, finishCloses, state, res, rxOpen,
                   connAlive, last_id, sent, delivered, yields, endPolls, cleanupRuns,
                   cleanupEntry, cleanupLog>>

\* The cookie the server returns with a page: empty when nothing is left.
ServerCookie == IF paged /\ srv.pos < Len(resultSet) THEN srv.pos ELSE EmptyCookie

\* The server ends the page (or the unpaged search) with success.
ServerDone ==
    /\ UNCHANGED notStream
    /\ srv.active
    /\ connAlive
    /\ srv.left = 0 \/ srv.pos = Len(resultSet)
    /\ rx' = Queue(DoneItem(0, ServerCookie))
    /\ srv' = [srv EXCEPT !.active = FALSE]
    /\ UNCHANGED <<pc, paged, page_size, resultSet, finishCloses, state, res, rxOpen,
                   connAlive, last_id, sent, delivered, yields, endPolls, cleanupRuns,
                   cleanupEntry, cleanupLog>>

\* The server ends the search with a non-success result code.
ServerFail(rc) ==
    /\ UNCHANGED notStream
    /\ srv.active
    /\ connAlive
    /\ rx' = Queue(DoneItem(rc, EmptyCookie))
    /\ srv' = [srv EXCEPT !.active = FALSE]
    /\ UNCHANGED <<pc, paged, page_size, resultSet, finishCloses, state, res, rxOpen,
                   connAlive, last_id, sent, delivered, yields, endPolls, cleanupRuns,
                   cleanupEntry, cleanupLog>>

\* The connection breaks.
ConnLost ==
    /\ UNCHANGED notStream
    /\ connAlive
    /\ pc \in {"none", "idle", "polling"}
    /\ connAlive' = FALSE
    /\ srv' = [srv EXCEPT !.active = FALSE]
    /\ UNCHANGED <<pc, paged, page_size, resultSet, finishCloses, state, res, rx,
                   rxOpen, last_id, sent, delivered, yields, endPolls, cleanupRuns,
                   cleanupEntry, cleanupLog>>

\* ------------------------------------------------------- server side sort
MaxSorts == 2      \* longest sort list a caller passes

Attributes == {"cn", "sn"}

\* SortBy { attribute, reverse }
SortBys == [attribute : Attributes, reverse : BOOLEAN]

SortLists == UNION {[1..n -> SortBys] : n \in 0..MaxSorts}

SERVER_SIDE_SORT_REQUEST_OID == "1.2.840.113556.1.4.473"

PAGED_RESULTS_OID == "1.2.840.113556.1.4.319"

\* A duplicate search that compares whole SortBy values, direction included.
DuplicatesOfWholeSortBy(sorts) ==
    {sorts[j].attribute : j \in {j \in 1..Len(sorts) :
                                    \E i \in 1..(j - 1) : sorts[i] = sorts[j]}}

\* sorts.iter().map(|sort_by| &sort_by.attribute).duplicates(): the
\* attributes that are met again after their first occurrence.
Duplicates(sorts) ==
    {sorts[j].attribute : j \in {j \in 1..Len(sorts) :
                                    \E i \in 1..(j - 1) :
                                        sorts[i].attribute = sorts[j].attribute}}

\* ServerSideSort::new
ServerSideSortNew(sorts) ==
    IF Duplicates(sorts) # {}
    THEN [ok |-> FALSE, sorts |-> <<>>, attributes |-> Duplicates(sorts)]
    ELSE [ok |-> TRUE, sorts |-> sorts, attributes |-> {}]

\* A conversion that loses the direction.
SortKeyAlwaysAscending(sort_by) ==
    [attribute_type |-> sort_by.attribute, ordering_rule |-> "None",
     reverse_order |-> FALSE]

\* impl From<SortBy> for SortKey
SortKeyFromSortBy(sort_by) ==
    [attribute_type |-> sort_by.attribute, ordering_rule |-> "None",
     reverse_order |-> sort_by.reverse]

\* ServerSideSortRequest { sort_key_list }.critical() as a control of the
\* outgoing list.
SortControl(sorts) ==
    [ctype |-> SERVER_SIDE_SORT_REQUEST_OID, crit |-> TRUE,
     keys |-> [i \in 1..Len(sorts) |-> SortKeyFromSortBy(sorts[i])],
     size |-> 0, cookie |-> EmptyCookie]

\* The paged-results control of the paging adapter.
PagedControl(size, cookie) ==
    [ctype |-> PAGED_RESULTS_OID, crit |-> FALSE, keys |-> <<>>,
     size |-> size, cookie |-> cookie]

HasControl(ctl, oid) == \E i \in 1..Len(ctl) : ctl[i].ctype = oid

ControlsOf(ctl, oid) == {i \in 1..Len(ctl) : ctl[i].ctype = oid}

FirstControl(ctl, oid) ==
    ctl[CHOOSE i \in ControlsOf(ctl, oid) : \A j \in ControlsOf(ctl, oid) : i <= j]

\* The adapters of a chain: ServerSideSort { sorts } and PagedResults.
SortAdapter(sorts) == [kind |-> "sort", sorts |-> sorts, size |-> 0]

PagedAdapter(p) == [kind |-> "paged", sorts |-> <<>>, size |-> PagedResultsSize(p)]

ChainShapes ==
    {<<"sort">>, <<"sort", "paged">>, <<"paged", "sort">>, <<"sort", "sort">>,
     <<"paged">>}

Chain(shape, sorts, p) ==
    [i \in 1..Len(shape) |->
        IF shape[i] = "sort" THEN SortAdapter(sorts) ELSE PagedAdapter(p)]

\* SearchStream::start: the start of adapter ax, or the dispatch of the
\* request once every adapter has run. The answer holds the result, the
\* adapters and the control list as start left them, the request written
\* (if any) and the last adapter whose start was invoked.
RECURSIVE ChainStartFrom(_, _, _)

\* A start without the check for a control that is already there.
ServerSideSortStartUnchecked(ax, ads, ctl) ==
    ChainStartFrom(ax + 1, [ads EXCEPT ![ax].sorts = <<>>],
                   Append(ctl, SortControl(ads[ax].sorts)))

\* A start that attaches its control before it looks for one.
ServerSideSortStartPushFirst(ax, ads, ctl) ==
    IF HasControl(Append(ctl, SortControl(ads[ax].sorts)), SERVER_SIDE_SORT_REQUEST_OID)
    THEN [ok |-> FALSE, adapters |-> [ads EXCEPT ![ax].sorts = <<>>],
          controls |-> Append(ctl, SortControl(ads[ax].sorts)),
          request |-> <<>>, reached |-> ax]
    ELSE ChainStartFrom(ax + 1, [ads EXCEPT ![ax].sorts = <<>>],
                        Append(ctl, SortControl(ads[ax].sorts)))

\* ServerSideSort::start: an error if the list holds a sort control already;
\* otherwise the adapter's sort list is taken out of it (mem::take), the
\* critical control built from it is pushed and the next start is called.
ServerSideSortStart(ax, ads, ctl) ==
    IF HasControl(ctl, SERVER_SIDE_SORT_REQUEST_OID)
    THEN [ok |-> FALSE, adapters |-> ads, controls |-> ctl, request |-> <<>>,
          reached |-> ax]
    ELSE ChainStartFrom(ax + 1, [ads EXCEPT ![ax].sorts = <<>>],
                        Append(ctl, SortControl(ads[ax].sorts)))

\* PagedResults::start: the same check for its own control, then a control
\* with the adapter's page size and an empty cookie.
PagedResultsStart(ax, ads, ctl) ==
    IF HasControl(ctl, PAGED_RESULTS_OID)
    THEN [ok |-> FALSE, adapters |-> ads, controls |-> ctl, request |-> <<>>,
          reached |-> ax]
    ELSE ChainStartFrom(ax + 1, ads, Append(ctl, PagedControl(ads[ax].size, EmptyCookie)))

\* The request is written with the controls of the handle, which the
\* operation takes with it.
ChainStartFrom(ax, ads, ctl) ==
    IF ax > Len(ads)
    THEN [ok |-> TRUE, adapters |-> ads, controls |-> <<>>, request |-> <<ctl>>,
          reached |-> Len(ads)]
    ELSE IF ads[ax].kind = "sort"
         THEN ServerSideSortStart(ax, ads, ctl)
         ELSE PagedResultsStart(ax, ads, ctl)

NoSortNew == [input |-> <<>>, result |-> [ok |-> TRUE, sorts |-> <<>>, attributes |-> {}]]

NoStart == [ok |-> TRUE, from |-> 0, reached |-> 0, before |-> <<>>, nreq |-> 0]

\* No adapter chain is being looked at.
SortIdle ==
    /\ cpc = "off"
    /\ resendsAll = FALSE
    /\ sortNew = NoSortNew
    /\ adapters = <<>>
    /\ controls = <<>>
    /\ requests = <<>>
    /\ chainStart = NoStart

\* The directory: the value of an attribute of an entry.
AttrValue(e, a) == IF a = "cn" THEN e ELSE (2 * e) % 5

\* The server's order of two entries under a sort key list.
RECURSIVE Before(_, _, _)
Before(a, b, keys) ==
    IF keys = <<>> THEN FALSE
    ELSE LET va == AttrValue(a, Head(keys).attribute_type)
             vb == AttrValue(b, Head(keys).attribute_type)
         IN  IF va = vb THEN Before(a, b, Tail(keys))
             ELSE IF Head(keys).reverse_order THEN va > vb ELSE va < vb

RECURSIVE Insert(_, _, _)
Insert(e, s, keys) ==
    IF s = <<>> THEN <<e>>
    ELSE IF Before(e, Head(s), keys) THEN <<e>> \o s
         ELSE <<Head(s)>> \o Insert(e, Tail(s), keys)

\* The server sorts the matching entries by the key list of the request.
RECURSIVE ServerSort(_, _)
ServerSort(s, keys) ==
    IF s = <<>> THEN <<>>
    ELSE Insert(s[Len(s)], ServerSort(SubSeq(s, 1, Len(s) - 1), keys), keys)

\* The order the server establishes for a request: the directory's own
\* order without a sort control, the sorted one with it.
ServerOrder(rs, req) ==
    IF HasControl(req, SERVER_SIDE_SORT_REQUEST_OID)
    THEN ServerSort(rs, FirstControl(req, SERVER_SIDE_SORT_REQUEST_OID).keys)
    ELSE rs

\* The caller builds the sort adapter.
ServerSideSortNewCall(sorts) ==
    /\ cpc = "new"
    /\ sortNew' = [input |-> sorts, result |-> ServerSideSortNew(sorts)]
    /\ cpc' = IF ServerSideSortNew(sorts).ok THEN "built" ELSE "rejected"
    /\ UNCHANGED <<resendsAll, adapters, controls, requests, chainStart>>
    /\ UNCHANGED <<streamVars, codecVars, clientVars, restVars>>

\* Ldap::streaming_search_with(adapters, ..) on a handle whose control list
\* is empty or (pre) holds a sort control the caller put there: start runs
\* down the chain; the server establishes the order of the result set rs
\* for the request that was written.
StreamingSearchWith(shape, pre, p, rs) ==
    /\ cpc = "built"
    /\ LET before == IF pre THEN <<SortControl(<<[attribute |-> "cn", reverse |-> FALSE]>>)>>
                     ELSE <<>>
           r == ChainStartFrom(1, Chain(shape, sortNew.result.sorts, p), before)
       IN  /\ adapters' = r.adapters
           /\ controls' = r.controls
           /\ requests' = r.request
           /\ chainStart' = [ok |-> r.ok, from |-> 1, reached |-> r.reached,
                             before |-> before, nreq |-> 0]
           /\ cpc' = IF r.ok THEN "started" ELSE "failed"
           /\ resultSet' = IF r.ok THEN ServerOrder(rs, r.request[1]) ELSE <<>>
    /\ page_size' = p
    /\ UNCHANGED <<resendsAll, sortNew>>
    /\ UNCHANGED <<pc, paged, finishCloses, state, res, rx, rxOpen, connAlive, srv,
                   last_id, sent, delivered, yields, endPolls, cleanupRuns,
                   cleanupEntry, cleanupLog>>
    /\ UNCHANGED <<codecVars, clientVars, restVars>>

PagedAdapterIndex == CHOOSE k \in 1..Len(adapters) : adapters[k].kind = "paged"

\* The controls the paging adapter puts on the handle for a continuation.
ContinuationControls(req, size, cookie) ==
    IF resendsAll
    THEN [i \in 1..Len(req) |->
            IF req[i].ctype = PAGED_RESULTS_OID THEN PagedControl(size, cookie)
            ELSE req[i]]
    ELSE <<PagedControl(size, cookie)>>

\* The stream delivers the entries of the page the server returned for the
\* last request. After a page with a cookie PagedResults::next sets up the
\* continuation and calls stream.start, which runs the start of every
\* adapter behind the paging adapter and then writes the request.
ChainNextPage ==
    /\ cpc = "started"
    /\ LET req == requests[Len(requests)]
           isPaged == HasControl(req, PAGED_RESULTS_OID)
           pos == Len(delivered)
           left == Len(resultSet) - pos
           size == IF isPaged THEN FirstControl(req, PAGED_RESULTS_OID).size ELSE left
           n == IF size < left THEN size ELSE left
           cookie == IF isPaged /\ pos + n < Len(resultSet) THEN pos + n ELSE EmptyCookie
       IN  /\ delivered' = delivered \o SubSeq(resultSet, pos + 1, pos + n)
           /\ IF cookie = EmptyCookie
              THEN /\ cpc' = "drained"
                   /\ UNCHANGED <<adapters, controls, requests, chainStart>>
              ELSE LET k == PagedAdapterIndex
                       ctl == ContinuationControls(req, adapters[k].size, cookie)
                       r == ChainStartFrom(k + 1, adapters, ctl)
                   IN  /\ adapters' = r.adapters
                       /\ controls' = r.controls
                       /\ requests' = requests \o r.request
                       /\ chainStart' = [ok |-> r.ok, from |-> k + 1,
                                         reached |-> r.reached, before |-> ctl,
                                         nreq |-> Len(requests)]
                       /\ cpc' = IF r.ok THEN "started" ELSE "failed"
    /\ UNCHANGED <<resendsAll, sortNew>>
    /\ UNCHANGED <<pc, paged, page_size, resultSet, finishCloses, state, res, rx,
                   rxOpen, connAlive, srv, last_id, sent, yields, endPolls,
                   cleanupRuns, cleanupEntry, cleanupLog>>
    /\ UNCHANGED <<codecVars, clientVars, restVars>>

\* ------------------------------------------------ sort response control
MaxElems == 2      \* most components in a response control value

ATTRIBUTE_TYPE_TAG == 0

\* enum SortResult: the result codes of RFC 2891.
SortResultCodes == {0, 1, 3, 8, 11, 16, 18, 50, 51, 53, 80}

\* Components a control value is made of: an ENUMERATED (universal 10) with
\* the code of success, of noSuchAttribute and with a number that is no sort
\* result; the same tag in the context class; an OCTET STRING (universal 4);
\* a constructed ENUMERATED; the [0] attribute type with and without valid
\* UTF-8 content.
ResponseElems ==
    {[class |-> "universal", id |-> 10, constructed |-> FALSE, num |-> n, utf8 |-> TRUE] :
        n \in {0, 16, 7}}
    \cup {[class |-> "context", id |-> 10, constructed |-> FALSE, num |-> 0, utf8 |-> TRUE],
          [class |-> "universal", id |-> 4, constructed |-> FALSE, num |-> 0, utf8 |-> TRUE],
          [class |-> "universal", id |-> 10, constructed |-> TRUE, num |-> 0, utf8 |-> TRUE],
          [class |-> "context", id |-> ATTRIBUTE_TYPE_TAG, constructed |-> FALSE,
           num |-> 0, utf8 |-> TRUE],
          [class |-> "context", id |-> ATTRIBUTE_TYPE_TAG, constructed |-> FALSE,
           num |-> 0, utf8 |-> FALSE]}

\* Control values: bytes that are no BER tag at all (truncated), a primitive
\* tag, and sequences of components.
Payloads ==
    {[ber |-> FALSE, constructed |-> FALSE, elems |-> <<>>],
     [ber |-> TRUE, constructed |-> FALSE, elems |-> <<>>]}
    \cup {[ber |-> TRUE, constructed |-> TRUE, elems |-> es] :
            es \in UNION {[1..n -> ResponseElems] : n \in 0..MaxElems}}

Panicked == [kind |-> "panic", sort_result |-> -1, attribute_type |-> "None"]

Response(code, attr) ==
    [kind |-> "response", sort_result |-> code, attribute_type |-> attr]

NotDecoded == [kind |-> "none", sort_result |-> -1, attribute_type |-> "None"]

\* The optional second component: a primitive context [0] becomes the
\* attribute type if it is UTF-8 (a panic if not); anything else is None.
AttributeType(elems) ==
    IF Len(elems) < 2 THEN "None"
    ELSE IF elems[2].class = "context" /\ elems[2].id = ATTRIBUTE_TYPE_TAG
            /\ ~elems[2].constructed
         THEN IF elems[2].utf8 THEN "Some" ELSE "panic"
         ELSE "None"

\* A parser that reads the attribute type whatever the sort result is.
ParseReadsAttributeOnSuccess(val) ==
    IF ~val.ber THEN Panicked
    ELSE IF ~val.constructed THEN Panicked
    ELSE IF val.elems = <<>> THEN Panicked
    ELSE IF ~(val.elems[1].class = "universal" /\ val.elems[1].id = 10
              /\ ~val.elems[1].constructed)
         THEN Panicked
    ELSE IF val.elems[1].num \notin SortResultCodes THEN Panicked
    ELSE IF AttributeType(val.elems) = "panic" THEN Panicked
    ELSE Response(val.elems[1].num, AttributeType(val.elems))

\* impl ControlParser for ServerSideSortResponse: parse(val: &[u8]) -> Self.
\* Every step that does not find what it expects ends in panic! or expect.
Parse(val) ==
    IF ~val.ber THEN Panicked                       \* parse_tag failed
    ELSE IF ~val.constructed THEN Panicked          \* expect_constructed
    ELSE IF val.elems = <<>> THEN Panicked          \* element 1
    ELSE IF ~(val.elems[1].class = "universal" /\ val.elems[1].id = 10
              /\ ~val.elems[1].constructed)
         THEN Panicked                              \* sortResult
    ELSE IF val.elems[1].num \notin SortResultCodes THEN Panicked
    ELSE IF val.elems[1].num = 0 THEN Response(0, "None")
    ELSE IF AttributeType(val.elems) = "panic" THEN Panicked
    ELSE Response(val.elems[1].num, AttributeType(val.elems))

\* No control value is being decoded.
CodecIdle == payload = [ber |-> FALSE, constructed |-> FALSE, elems |-> <<>>]
             /\ decoded = NotDecoded

\* get_response_control: the response control found in the controls of the
\* result is parsed.
GetResponseControl ==
    /\ decoded = NotDecoded
    /\ decoded' = Parse(payload)
    /\ UNCHANGED <<payload, streamVars, sortVars, clientVars, restVars>>

\* ------------------------------------------- sort adapter: next and finish
\* What a call of the inner stream gives: an entry, the end of the results
\* or an error from next(), the final result from finish().
NoInner == [op |-> "none", kind |-> "none", entry |-> 0, rc |-> 0]

InnerNexts ==
    {[op |-> "next", kind |-> "entry", entry |-> e, rc |-> 0] : e \in 1..2}
    \cup {[op |-> "next", kind |-> "none", entry |-> 0, rc |-> 0]}
    \cup {[op |-> "next", kind |-> "err", entry |-> 0, rc |-> rc] : rc \in FailCodes}

InnerFinishes ==
    {[op |-> "finish", kind |-> "result", entry |-> 0, rc |-> rc] :
        rc \in {0, RcUserCancelled} \cup FailCodes}

AdapterPanic(op) == [op |-> op, kind |-> "panic", entry |-> 0, rc |-> 0]

\* get_response_control(controls): the first control with the response OID,
\* parsed; None when the result has none (or, in next, when the stream has
\* no result yet).
GetResponseControlOf(sr, val) == IF sr = "Control" THEN Parse(val) ELSE NotDecoded

\* A next that reports a failed sort as an error of the search.
ServerSideSortNextErrs(inr, sr, val) ==
    IF inr.kind # "entry" THEN inr
    ELSE LET sss_control == GetResponseControlOf(sr, val)
         IN  IF sss_control.kind = "none" THEN inr
             ELSE IF sss_control.kind = "panic" THEN AdapterPanic("next")
             ELSE IF sss_control.sort_result = 0 THEN inr
             ELSE [op |-> "next", kind |-> "err", entry |-> 0,
                   rc |-> sss_control.sort_result]

\* ServerSideSort::next: stream.next().await? hands an error on as it is,
\* None gives Ok(None); with an entry the control of stream.res is parsed:
\* Success or no control pass the entry on, another sort result is a panic.
ServerSideSortNext(inr, sr, val) ==
    IF inr.kind # "entry" THEN inr
    ELSE LET sss_control == GetResponseControlOf(sr, val)
         IN  IF sss_control.kind = "none" THEN inr
             ELSE IF sss_control.kind = "panic" THEN AdapterPanic("next")
             ELSE IF sss_control.sort_result = 0 THEN inr
             ELSE AdapterPanic("next")

\* ServerSideSort::finish: the control of the result of stream.finish() is
\* parsed for the log line, then the result is returned.
ServerSideSortFinish(result, sr, val) ==
    IF GetResponseControlOf(sr, val).kind = "panic" THEN AdapterPanic("finish")
    ELSE result

\* No call of the adapter is being looked at.
AdapterIdle ==
    /\ sres = "None"
    /\ inner = NoInner
    /\ adapterOut = NoInner

\* adapter.next(stream) with what the inner stream returned.
ServerSideSortNextCall(inr) ==
    /\ inner = NoInner
    /\ inner' = inr
    /\ adapterOut' = ServerSideSortNext(inr, sres, payload)
    /\ UNCHANGED <<sres, encVars, connVars, streamVars, sortVars, codecVars, clientVars,
                   writeVars, authVars, dnVars, orderVars>>

\* adapter.finish(stream) with the result the inner stream returned.
ServerSideSortFinishCall(result) ==
    /\ inner = NoInner
    /\ sres # "None"
    /\ inner' = result
    /\ adapterOut' = ServerSideSortFinish(result, sres, payload)
    /\ UNCHANGED <<sres, encVars, connVars, streamVars, sortVars, codecVars, clientVars,
                   writeVars, authVars, dnVars, orderVars>>

\* ------------------------------------------------- sort request control
ORDERING_RULE_TAG == 0

REVERSE_ORDER_TAG == 1

\* SortKey { attribute_type, ordering_rule, reverse_order }
SortKeys ==
    [attribute_type : Attributes, ordering_rule : {"None", "caseIgnoreOrderingMatch"},
     reverse_order : BOOLEAN]

SortKeyLists == UNION {[1..n -> SortKeys] : n \in 0..MaxSorts}

\* Tag::OctetString and Tag::Boolean with their class and id.
OctetStringTag(class, id, content) ==
    [class |-> class, id |-> id, type |-> "OctetString", octets |-> content, bool |-> FALSE]

BooleanTag(class, id, content) ==
    [class |-> class, id |-> id, type |-> "Boolean", octets |-> "", bool |-> content]

\* Tag::Sequence with the default class and id (universal 16).
SequenceTag(content) ==
    [class |-> "universal", id |-> 16, type |-> "Sequence", inner |-> content]

\* An encoding that leaves out the reverse flag when it has its default.
TagFromSortKeyOmitsDefault(value) ==
    SequenceTag(
        <<OctetStringTag("universal", 4, value.attribute_type)>>
        \o (IF value.ordering_rule # "None"
            THEN <<OctetStringTag("context", ORDERING_RULE_TAG, value.ordering_rule)>>
            ELSE <<>>)
        \o (IF value.reverse_order
            THEN <<BooleanTag("context", REVERSE_ORDER_TAG, value.reverse_order)>>
            ELSE <<>>))

\* impl From<SortKey> for Tag: the attribute as an OCTET STRING with the
\* default class and id (universal 4), the ordering rule as [0] if there
\* is one, the reverse flag as [1]; the Options are flattened into a
\* sequence.
TagFromSortKey(value) ==
    SequenceTag(
        <<OctetStringTag("universal", 4, value.attribute_type)>>
        \o (IF value.ordering_rule # "None"
            THEN <<OctetStringTag("context", ORDERING_RULE_TAG, value.ordering_rule)>>
            ELSE <<>>)
        \o <<BooleanTag("context", REVERSE_ORDER_TAG, value.reverse_order)>>)

NoRaw == [ctype |-> "", crit |-> FALSE, val |-> SequenceTag(<<>>)]

\* impl From<ServerSideSortRequest> for RawControl: the keys, each as its
\* tag, in a sequence; the request OID; crit false.
RawControlFromRequest(value) ==
    [ctype |-> SERVER_SIDE_SORT_REQUEST_OID, crit |-> FALSE,
     val |-> SequenceTag([i \in 1..Len(value) |-> TagFromSortKey(value[i])])]

\* No request control is being encoded.
EncIdle ==
    /\ sort_key_list = <<>>
    /\ raw = NoRaw

\* RawControl::from(ServerSideSortRequest { sort_key_list })
RawControlFrom ==
    /\ raw = NoRaw
    /\ raw' = RawControlFromRequest(sort_key_list)
    /\ UNCHANGED <<sort_key_list, adapterVars, connVars, streamVars, sortVars, codecVars,
                   clientVars, writeVars, authVars, dnVars, orderVars>>

\* ------------------------------------------- clones of one connection
MaxClones == 2     \* clones of the client that share the connection
MaxIds == 5        \* message ids the tasks use for searches and other operations

Clones == 1..MaxClones

\* An operation of clone c on its client handle or on its stream's handle.
Operation(op, id, target, c, h) ==
    [op |-> op, id |-> id, target |-> target, c |-> c, h |-> h]

\* A cleanup that takes the id of the last operation of the connection.
ConnectionLastId(c) == nextId - 1

\* search_stream.ldap_handle().last_id() of the stream of clone c: the
\* stream has a handle of its own, and a handle remembers the id of the
\* last operation issued through it.
StreamLastId(c) == lastIds[c].stream

\* A task can be polled: the runtime has a thread that is not inside a
\* block_on (a runtime of several threads is taken to have one to spare).
CanRun == ~singleThread \/ \A c \in Clones : phase[c] # "blocked"

\* No clone of a connection is being looked at.
ConnIdle ==
    /\ singleThread = FALSE
    /\ nextId = 2
    /\ lastIds = [c \in Clones |-> [client |-> 0, stream |-> 0]]
    /\ phase = [c \in Clones |-> "idle"]
    /\ sstate = [c \in Clones |-> "Fresh"]
    /\ opq = <<>>
    /\ wire = <<>>
    /\ replied = {}

\* client.streaming_search on clone c: the stream gets a handle of its own
\* and the search request is its first operation.
CloneStreamingSearch(c) ==
    /\ phase[c] = "idle" /\ CanRun /\ nextId <= MaxIds
    /\ wire' = Append(wire, Operation("search", nextId, 0, c, "stream"))
    /\ lastIds' = [lastIds EXCEPT ![c].stream = nextId]
    /\ nextId' = nextId + 1
    /\ sstate' = [sstate EXCEPT ![c] = "Active"]
    /\ phase' = [phase EXCEPT ![c] = "streaming"]
    /\ UNCHANGED <<singleThread, opq, replied>>
    /\ UNCHANGED <<adapterVars, encVars, streamVars, sortVars, codecVars, clientVars,
                   writeVars, authVars, dnVars, orderVars>>

\* The paging adapter of the stream of clone c asks for the next page.
CloneNextPage(c) ==
    /\ phase[c] = "streaming" /\ sstate[c] = "Active" /\ CanRun /\ nextId <= MaxIds
    /\ wire' = Append(wire, Operation("search", nextId, 0, c, "stream"))
    /\ lastIds' = [lastIds EXCEPT ![c].stream = nextId]
    /\ nextId' = nextId + 1
    /\ UNCHANGED <<singleThread, phase, sstate, opq, replied>>
    /\ UNCHANGED <<adapterVars, encVars, streamVars, sortVars, codecVars, clientVars,
                   writeVars, authVars, dnVars, orderVars>>

\* The stream of clone c is read to its end, or meets an error.
CloneStreamEnds(c, st) ==
    /\ phase[c] = "streaming" /\ sstate[c] = "Active" /\ CanRun
    /\ sstate' = [sstate EXCEPT ![c] = st]
    /\ UNCHANGED <<singleThread, nextId, lastIds, phase, opq, wire, replied>>
    /\ UNCHANGED <<adapterVars, encVars, streamVars, sortVars, codecVars, clientVars,
                   writeVars, authVars, dnVars, orderVars>>

\* Another operation on the client handle of clone c (a search, a write):
\* the client is not borrowed by a stream.
CloneOperation(c) ==
    /\ phase[c] \in {"idle", "dropped"} /\ CanRun /\ nextId <= MaxIds
    /\ wire' = Append(wire, Operation("other", nextId, 0, c, "client"))
    /\ lastIds' = [lastIds EXCEPT ![c].client = nextId]
    /\ nextId' = nextId + 1
    /\ UNCHANGED <<singleThread, phase, sstate, opq, replied>>
    /\ UNCHANGED <<adapterVars, encVars, streamVars, sortVars, codecVars, clientVars,
                   writeVars, authVars, dnVars, orderVars>>

\* The stream of clone c is dropped: block_on(cleanup()) runs finish and
\* the match on the state on the task's thread; the abandon arm hands the
\* abandon to the connection driver and waits for its answer.
CloneDrop(c) ==
    /\ phase[c] = "streaming" /\ CanRun
    /\ LET f == FinishInner(sstate[c], NoRes)
           msgid == StreamLastId(c)
       IN  /\ sstate' = [sstate EXCEPT ![c] = f.state]
           /\ IF CleanupArm(f.state) = "abandon"
              THEN /\ opq' = Append(opq, Operation("abandon", nextId, msgid, c, "stream"))
                   /\ lastIds' = [lastIds EXCEPT ![c].stream = nextId]
                   /\ nextId' = nextId + 1
                   /\ phase' = [phase EXCEPT ![c] = "blocked"]
              ELSE /\ phase' = [phase EXCEPT ![c] = "dropped"]
                   /\ UNCHANGED <<opq, lastIds, nextId>>
    /\ UNCHANGED <<singleThread, wire, replied>>
    /\ UNCHANGED <<adapterVars, encVars, streamVars, sortVars, codecVars, clientVars,
                   writeVars, authVars, dnVars, orderVars>>

\* The connection driver (the task spawned by drive!) writes the next
\* operation handed to it and answers its caller.
Drive ==
    /\ opq # <<>> /\ CanRun
    /\ wire' = Append(wire, Head(opq))
    /\ opq' = Tail(opq)
    /\ replied' = replied \cup {Head(opq).id}
    /\ UNCHANGED <<singleThread, nextId, lastIds, phase, sstate>>
    /\ UNCHANGED <<adapterVars, encVars, streamVars, sortVars, codecVars, clientVars,
                   writeVars, authVars, dnVars, orderVars>>

\* The abandon of the cleanup of clone c was answered: cleanup ends and
\* block_on returns.
CloneDropReturns(c) ==
    /\ phase[c] = "blocked"
    /\ lastIds[c].stream \in replied
    /\ phase' = [phase EXCEPT ![c] = "dropped"]
    /\ UNCHANGED <<singleThread, nextId, lastIds, sstate, opq, wire, replied>>
    /\ UNCHANGED <<adapterVars, encVars, streamVars, sortVars, codecVars, clientVars,
                   writeVars, authVars, dnVars, orderVars>>

\* ---------------------------------------------------------- client handles
MaxHandles == 2    \* clients of the pool

Handles == 1..MaxHandles

\* Result codes a search can end with: success, referral and failures.
SearchResultCodes == {0, 10} \cup FailCodes

\* What a server returns for a search: its first n matching entries.
SearchResults == {[i \in 1..n |-> i] : n \in 0..MaxN}

NoCall == [h |-> 0, transport |-> TRUE, rc |-> 0, records |-> <<>>, deserializes |-> TRUE]

Answer(kind, entry) == [kind |-> kind, entry |-> entry]

\* A search that counts the records before it looks at the result code.
SearchInnerCountsFirst(transport, rc, records) ==
    IF ~transport THEN Answer("Query", 0)
    ELSE IF Len(records) > 1 THEN Answer("MultipleResults", 0)
    ELSE IF records = <<>> THEN Answer("NotFound", 0)
    ELSE IF ~SuccessRc(rc) THEN Answer("Query", 0)
    ELSE Answer("entry", records[1])

\* LdapClient::search_innter: Error::Query for a failed call and for a
\* result that is not success(); then the number of records decides.
SearchInner(transport, rc, records) ==
    IF ~transport THEN Answer("Query", 0)
    ELSE IF ~SuccessRc(rc) THEN Answer("Query", 0)
    ELSE IF Len(records) > 1 THEN Answer("MultipleResults", 0)
    ELSE IF records = <<>> THEN Answer("NotFound", 0)
    ELSE Answer("entry", records[1])

\* to_value / to_multi_value: T::deserialize of the entry's fields.
ToValue(entry, deserializes) ==
    IF deserializes THEN Answer("record", entry) ELSE Answer("Mapping", 0)

\* LdapClient::search and LdapClient::search_multi_valued.
Search(transport, rc, records, deserializes) ==
    IF SearchInner(transport, rc, records).kind = "entry"
    THEN ToValue(SearchInner(transport, rc, records).entry, deserializes)
    ELSE SearchInner(transport, rc, records)

\* A method that takes the client by shared reference.
SharedBorrow(h) == place[h] = "held"

\* A call of a method that takes &mut self compiles only where the client
\* is owned by the caller and not mutably borrowed: the stream that
\* streaming_search returns holds the borrow &'a mut self as long as it
\* lives.
MutBorrow(h) == place[h] = "held" /\ streams[h] = 0

\* The connection of the client can carry a request to the server.
Live(h) == session[h] \in {"manager", "user", "anonymous"}

\* No client is in use: the pool is built and has made no connection yet.
ClientIdle ==
    /\ place = [h \in Handles |-> "pool"]
    /\ streams = [h \in Handles |-> 0]
    /\ call = NoCall
    /\ answer = Answer("none", 0)
    /\ session = [h \in Handles |-> "unmade"]

\* Manager::recycle: client.unbind_ref(), that is ldap.unbind(), on the
\* connection of the client. A live connection is unbound and closed and
\* recycle returns Ok; on a connection that is closed already the unbind
\* gives what the transport gives (unbindOk), and its error is the error
\* of recycle.
Recycle(sess, unbindOk) ==
    IF sess \in {"manager", "user", "anonymous"}
    THEN [ok |-> TRUE, session |-> "closed"]
    ELSE [ok |-> unbindOk, session |-> "closed"]

\* pool.get() that takes the slot h. An empty slot is filled with
\* Manager::create (LdapClient::new: connect and bind as bind_dn). An
\* object of the pool is recycled first: when recycle returns Ok the caller
\* gets the object, and when it returns an error the pool discards the
\* object and get goes on with another slot.
PoolGet(h, unbindOk) ==
    /\ place[h] = "pool"
    /\ IF session[h] = "unmade"
       THEN /\ session' = [session EXCEPT ![h] = "manager"]
            /\ place' = [place EXCEPT ![h] = "held"]
       ELSE IF Recycle(session[h], unbindOk).ok
       THEN /\ session' = [session EXCEPT ![h] = Recycle(session[h], unbindOk).session]
            /\ place' = [place EXCEPT ![h] = "held"]
       ELSE /\ session' = [session EXCEPT ![h] = "unmade"]
            /\ UNCHANGED place
    /\ UNCHANGED <<streams, call, answer, streamVars, sortVars, codecVars, restVars>>

\* The client object is dropped and goes back to the pool; an object that
\* is borrowed cannot be dropped.
PoolReturn(h) ==
    /\ MutBorrow(h)
    /\ place' = [place EXCEPT ![h] = "pool"]
    /\ UNCHANGED <<streams, call, answer, session, streamVars, sortVars, codecVars,
                   restVars>>

\* client.search(..) / client.search_multi_valued(..), awaited to its answer.
\* A call on a closed connection fails in the transport.
ClientSearch(h, transport, rc, records, deserializes) ==
    /\ MutBorrow(h)
    /\ transport => Live(h)
    /\ call' = [h |-> h, transport |-> transport, rc |-> rc, records |-> records,
                deserializes |-> deserializes]
    /\ answer' = Search(transport, rc, records, deserializes)
    /\ UNCHANGED <<place, streams, session, streamVars, sortVars, codecVars, restVars>>

\* client.streaming_search(..) / client.streaming_search_paged(..): the
\* stream returned borrows the client.
ClientStreamingSearch(h) ==
    /\ MutBorrow(h)
    /\ streams' = [streams EXCEPT ![h] = @ + 1]
    /\ UNCHANGED <<place, call, answer, session, streamVars, sortVars, codecVars,
                   restVars>>

\* The stream is dropped (and cleaned up): the borrow ends.
ClientStreamDrop(h) ==
    /\ streams[h] > 0
    /\ streams' = [streams EXCEPT ![h] = @ - 1]
    /\ UNCHANGED <<place, call, answer, session, streamVars, sortVars, codecVars,
                   restVars>>

\* ------------------------------------------------------------ authenticate
\* Result codes of a simple bind: success, referral, invalidCredentials.
BindResultCodes == {0, 10, 49}

NoAuth == [h |-> 0, transport |-> TRUE, rc |-> 0, records |-> <<>>, hasDn |-> TRUE,
           bindTransport |-> TRUE, bindRc |-> 0]

AuthAnswer(kind, bind) == [kind |-> kind, bind |-> bind]

\* What the server can do during one authenticate, as far as the method
\* looks: the search, the DN attribute of the entry when one entry came
\* with success, and the bind when that entry has the attribute.
AuthCalls ==
    {[NoAuth EXCEPT !.transport = FALSE]}
    \cup {[NoAuth EXCEPT !.rc = rc, !.records = records] :
              rc \in SearchResultCodes, records \in SearchResults}
    \cup {[NoAuth EXCEPT !.rc = rc, !.records = <<1>>, !.hasDn = FALSE] :
              rc \in {0, 10}}
    \cup {[NoAuth EXCEPT !.rc = rc, !.records = <<1>>, !.bindTransport = FALSE] :
              rc \in {0, 10}}
    \cup {[NoAuth EXCEPT !.rc = rc, !.records = <<1>>, !.bindRc = bindRc] :
              rc \in {0, 10}, bindRc \in BindResultCodes}

\* An authenticate that binds before it counts the entries.
AuthenticateBindsFirst(c) ==
    IF ~c.transport THEN AuthAnswer("Query", "none")
    ELSE IF ~SuccessRc(c.rc) THEN AuthAnswer("Query", "none")
    ELSE IF ~c.hasDn THEN AuthAnswer("AuthenticationFailed", "none")
    ELSE IF ~c.bindTransport THEN AuthAnswer("AuthenticationFailed", "lost")
    ELSE IF ~SuccessRc(c.bindRc) THEN AuthAnswer("AuthenticationFailed", "refused")
    ELSE IF c.records = <<>> THEN AuthAnswer("NotFound", "bound")
    ELSE IF Len(c.records) > 1 THEN AuthAnswer("MultipleResults", "bound")
    ELSE AuthAnswer("Ok", "bound")

\* LdapClient::authenticate: the search for the entry (Error::Query for a
\* failed call and for a result that is not success()), the count of the
\* entries, the DN attribute of the entry, then the simple bind on the
\* connection of the client. bind tells what became of the bind: "none"
\* (not attempted), "lost" (the call failed), "refused" (the server
\* answered with a result that is not success()), "bound".
Authenticate(c) ==
    IF ~c.transport THEN AuthAnswer("Query", "none")
    ELSE IF ~SuccessRc(c.rc) THEN AuthAnswer("Query", "none")
    ELSE IF c.records = <<>> THEN AuthAnswer("NotFound", "none")
    ELSE IF Len(c.records) > 1 THEN AuthAnswer("MultipleResults", "none")
    ELSE IF ~c.hasDn THEN AuthAnswer("AuthenticationFailed", "none")
    ELSE IF ~c.bindTransport THEN AuthAnswer("AuthenticationFailed", "lost")
    ELSE IF ~SuccessRc(c.bindRc) THEN AuthAnswer("AuthenticationFailed", "refused")
    ELSE AuthAnswer("Ok", "bound")

\* The identity of the connection after the bind request: a bind the
\* server accepts (result code 0) makes the connection the user's, and a
\* bind request it answers otherwise leaves the connection anonymous.
SessionAfterBind(sess, bind, bindRc) ==
    IF bind \in {"none", "lost"} THEN sess
    ELSE IF bindRc = 0 THEN "user"
    ELSE "anonymous"

\* No authenticate was called.
AuthIdle ==
    /\ auth = NoAuth
    /\ authAnswer = AuthAnswer("none", "none")

\* client.authenticate(base, uid, password, filter), awaited to its answer.
\* A call on a closed connection fails in the transport.
ClientAuthenticate(h, c) ==
    /\ MutBorrow(h)
    /\ ~Live(h) => ~c.transport
    /\ auth' = [c EXCEPT !.h = h]
    /\ authAnswer' = Authenticate(c)
    /\ session' = [session EXCEPT
                      ![h] = SessionAfterBind(@, Authenticate(c).bind, c.bindRc)]
    /\ UNCHANGED <<place, streams, call, answer, streamVars, sortVars, codecVars,
                   writeVars, dnVars, orderVars, moreVars>>

\* -------------------------------------------------------- write operations
NO_SUCH_RECORD == 32

\* Result codes a write can end with: success, referral, noSuchObject,
\* insufficientAccessRights, entryAlreadyExists.
WriteResultCodes == {0, 10, 32, 50, 68}

\* The new_uid argument of update: None, the uid itself up to ASCII case,
\* or another uid.
NewUids == {"None", "same", "other"}

NoWrite == [op |-> "none", transport |-> TRUE, rc |-> 0, new_uid |-> "None",
            transport2 |-> TRUE, rc2 |-> 0]

\* A server operation the client issued: whether the call came back with a
\* result, and the result code it came back with.
Issued(req, transport, rc) ==
    [req |-> req, done |-> transport, rc |-> IF transport THEN rc ELSE -1]

\* A check of the result that gives the operation's own error for every
\* result that is not a success.
ModifyResultNoSuchAsFailure(transport, rc, failure) ==
    IF ~transport THEN failure
    ELSE IF SuccessRc(rc) THEN "Ok"
    ELSE failure

\* The check update, delete, add_users_to_group and remove_users_from_group
\* make of their first request: the operation's own error for a failed
\* call; for a result that success() refuses, the match on the error
\* returns NotFound for code 32 and returns nothing for another code (the
\* arm for LdapError::LdapResult ends without a return, and success()
\* gives no other kind of error), so the method goes on as after a success.
ModifyResult(transport, rc, failure) ==
    IF ~transport THEN failure
    ELSE IF SuccessRc(rc) THEN "Ok"
    ELSE IF rc = NO_SUCH_RECORD THEN "NotFound"
    ELSE "Ok"

\* The modifydn of update: any failure is Error::Update.
RenameResult(transport2, rc2) ==
    IF ~transport2 THEN "Update"
    ELSE IF ~SuccessRc(rc2) THEN "Update"
    ELSE "Ok"

\* No write operation was called.
WriteIdle ==
    /\ wcall = NoWrite
    /\ wanswer = "none"
    /\ wsent = <<>>

\* client.update(uid, base, data, new_uid), awaited to its answer.
Update(transport, rc, new_uid, transport2, rc2) ==
    LET first == ModifyResult(transport, rc, "Update")
        renames == first = "Ok" /\ new_uid = "other"
    IN  /\ wcall' = [op |-> "update", transport |-> transport, rc |-> rc,
                     new_uid |-> new_uid, transport2 |-> transport2, rc2 |-> rc2]
        /\ wsent' = <<Issued("modify", transport, rc)>> \o
                        (IF renames THEN <<Issued("modifydn", transport2, rc2)>> ELSE <<>>)
        /\ wanswer' = IF first # "Ok" THEN first
                      ELSE IF renames THEN RenameResult(transport2, rc2)
                      ELSE "Ok"
        /\ UNCHANGED <<moreVars, streamVars, sortVars, codecVars, clientVars, authVars, dnVars,
                   orderVars>>

\* client.delete(uid, base), awaited to its answer.
Delete(transport, rc) ==
    /\ wcall' = [NoWrite EXCEPT !.op = "delete", !.transport = transport, !.rc = rc]
    /\ wsent' = <<Issued("delete", transport, rc)>>
    /\ wanswer' = ModifyResult(transport, rc, "Delete")
    /\ UNCHANGED <<moreVars, streamVars, sortVars, codecVars, clientVars, authVars, dnVars,
                   orderVars>>

\* client.add_users_to_group(users, group_dn), awaited to its answer.
AddUsersToGroup(transport, rc) ==
    /\ wcall' = [NoWrite EXCEPT !.op = "add_users_to_group", !.transport = transport,
                                !.rc = rc]
    /\ wsent' = <<Issued("modify", transport, rc)>>
    /\ wanswer' = ModifyResult(transport, rc, "Update")
    /\ UNCHANGED <<moreVars, streamVars, sortVars, codecVars, clientVars, authVars, dnVars,
                   orderVars>>

\* client.remove_users_from_group(group_dn, users), awaited to its answer.
RemoveUsersFromGroup(transport, rc) ==
    /\ wcall' = [NoWrite EXCEPT !.op = "remove_users_from_group",
                                !.transport = transport, !.rc = rc]
    /\ wsent' = <<Issued("modify", transport, rc)>>
    /\ wanswer' = ModifyResult(transport, rc, "Update")
    /\ UNCHANGED <<moreVars, streamVars, sortVars, codecVars, clientVars, authVars, dnVars,
                   orderVars>>

\* ---------------------------------------------------------------- SimpleDN
MaxText == 4       \* longest arbitrary string given to from_str
MaxRdns == 3       \* most RDNs of a DN that is written out or compared

\* Characters of a string: two alphanumerics and the three that a value
\* may not hold.
Chars == {"a", "b", "=", ",", "+"}

\* c.is_ascii_alphanumeric()
Alphanumeric == {"a", "b"}

\* none_of("+=,")
ValueChars == Chars \ {"+", "=", ","}

SimpleRDN(key, value) == [key |-> key, value |-> value]

\* RDNs of the DNs that are written out: single-character keys and values.
Rdns == {SimpleRDN(<<k>>, <<"a">>) : k \in Alphanumeric}

\* The values of SimpleDN with at most MaxRdns RDNs, the one without RDNs
\* (what from_str gives for the empty string) included.
DNs == UNION {[1..n -> Rdns] : n \in 0..MaxRdns}

RECURSIVE Join(_)
\* impl Display for SimpleDN: the RDNs as key=value, separated by commas.
Join(rdns) ==
    IF rdns = <<>> THEN <<>>
    ELSE rdns[1].key \o <<"=">> \o rdns[1].value \o
         (IF Len(rdns) = 1 THEN <<>> ELSE <<",">> \o Join(Tail(rdns)))

\* The strings given to from_str: every string of at most MaxText
\* characters, and the printed form of every DN.
Texts ==
    UNION {[1..n -> Chars] : n \in 0..MaxText} \cup {Join(d) : d \in DNs}

RECURSIVE Repeated(_, _, _)
\* filter(..).repeated() / none_of(..).repeated(): the length of the
\* longest run of characters of the set from position i on.
Repeated(t, i, set) ==
    IF i <= Len(t) /\ t[i] \in set THEN 1 + Repeated(t, i + 1, set) ELSE 0

\* simple_rdn_parser at position i: at least one alphanumeric, '=', at
\* least one character that is none of "+=,".
SimpleRdnParser(t, i) ==
    LET k == Repeated(t, i, Alphanumeric)
        v == Repeated(t, i + k + 1, ValueChars)
    IN  IF k >= 1 /\ i + k <= Len(t) /\ t[i + k] = "=" /\ v >= 1
        THEN [ok |-> TRUE,
              rdn |-> SimpleRDN(SubSeq(t, i, i + k - 1), SubSeq(t, i + k + 1, i + k + v)),
              next |-> i + k + 1 + v]
        ELSE [ok |-> FALSE, rdn |-> SimpleRDN(<<>>, <<>>), next |-> i]

RECURSIVE SeparatedBy(_, _, _)
\* separated_by(just(',')) after the items acc, at position i: a comma
\* and an item carry the list on; anything else ends the list where it
\* is, before the comma.
SeparatedBy(t, i, acc) ==
    IF i <= Len(t) /\ t[i] = "," /\ SimpleRdnParser(t, i + 1).ok
    THEN SeparatedBy(t, SimpleRdnParser(t, i + 1).next,
                     Append(acc, SimpleRdnParser(t, i + 1).rdn))
    ELSE [rdns |-> acc, next |-> i]

\* simple_rdn_parser().separated_by(just(',')).collect(): a list of RDNs
\* with no lower bound on its length, so that it matches no item at all.
SimpleDnItems(t) ==
    IF SimpleRdnParser(t, 1).ok
    THEN SeparatedBy(t, SimpleRdnParser(t, 1).next, <<SimpleRdnParser(t, 1).rdn>>)
    ELSE [rdns |-> <<>>, next |-> 1]

NoDN == [kind |-> "none", rdns |-> <<>>]

SomeDN(rdns) == [kind |-> "dn", rdns |-> rdns]

\* SimpleDN::from_str: parse(s) of simple_dn_parser, which is Ok when the
\* list has taken the whole string.
FromStr(t) ==
    IF SimpleDnItems(t).next = Len(t) + 1
    THEN SomeDN(SimpleDnItems(t).rdns)
    ELSE [kind |-> "error", rdns |-> <<>>]

\* SimpleDN::parent: the RDNs after the first, when there are any.
Parent(rdns) ==
    IF Len(rdns) >= 2 THEN SomeDN(Tail(rdns)) ELSE NoDN

\* SimpleDN::get_starting_from: the RDNs from the first with the key on.
GetStartingFrom(rdns, key) ==
    IF \E i \in 1..Len(rdns) : rdns[i].key = key
    THEN LET position == CHOOSE i \in 1..Len(rdns) :
                            /\ rdns[i].key = key
                            /\ \A j \in 1..(i - 1) : rdns[j].key # key
         IN  SomeDN(SubSeq(rdns, position, Len(rdns)))
    ELSE NoDN

\* SimpleDN::get_type: the key of the first RDN; expect(..) panics when
\* there is none.
GetType(rdns) ==
    IF rdns = <<>> THEN "panic" ELSE rdns[1].key

\* No DN was made.
DnIdle ==
    /\ dnText = <<>>
    /\ dn = NoDN
    /\ dnType = "none"

\* SimpleDN::from_str(dnText)
FromStrCall ==
    /\ dn = NoDN
    /\ dn' = FromStr(dnText)
    /\ UNCHANGED <<dnText, dnType>>
    /\ UNCHANGED <<moreVars, streamVars, sortVars, codecVars, clientVars, writeVars, authVars,
                   orderVars>>

\* dn.parent(), taken when it is Some
ParentCall ==
    /\ dn.kind = "dn"
    /\ Parent(dn.rdns).kind = "dn"
    /\ dn' = Parent(dn.rdns)
    /\ dnType' = "none"
    /\ UNCHANGED dnText
    /\ UNCHANGED <<moreVars, streamVars, sortVars, codecVars, clientVars, writeVars, authVars,
                   orderVars>>

\* dn.get_starting_from(key), taken when it is Some
GetStartingFromCall(key) ==
    /\ dn.kind = "dn"
    /\ GetStartingFrom(dn.rdns, key).kind = "dn"
    /\ dn' = GetStartingFrom(dn.rdns, key)
    /\ dnType' = "none"
    /\ UNCHANGED dnText
    /\ UNCHANGED <<moreVars, streamVars, sortVars, codecVars, clientVars, writeVars, authVars,
                   orderVars>>

\* dn.get_type()
GetTypeCall ==
    /\ dn.kind = "dn"
    /\ dnType' = GetType(dn.rdns)
    /\ UNCHANGED <<dnText, dn>>
    /\ UNCHANGED <<moreVars, streamVars, sortVars, codecVars, clientVars, writeVars, authVars,
                   orderVars>>

\* ----------------------------------------------------- SimpleDN, ordering
Reverse(s) == [i \in 1..Len(s) |-> s[Len(s) + 1 - i]]

\* zip_longest: pairs while both lists last, then the rest of the longer.
ZipLongest(x, y) ==
    [i \in 1..Max(Len(x), Len(y)) |->
        IF i <= Len(x) /\ i <= Len(y) THEN [kind |-> "Both", this |-> x[i], that |-> y[i]]
        ELSE IF i <= Len(x) THEN [kind |-> "Left", this |-> x[i], that |-> x[i]]
        ELSE [kind |-> "Right", this |-> y[i], that |-> y[i]]]

\* find(|maybe_both| !matches!(maybe_both, Both(this, that) if this == that))
Differs(maybe_both) == ~(maybe_both.kind = "Both" /\ maybe_both.this = maybe_both.that)

\* The match of partial_cmp on the first pair that differs, if any.
CmpOfZip(z) ==
    IF \A i \in 1..Len(z) : ~Differs(z[i]) THEN "Equal"
    ELSE LET i == CHOOSE i \in 1..Len(z) :
                     Differs(z[i]) /\ \A j \in 1..(i - 1) : ~Differs(z[j])
         IN  IF z[i].kind = "Both" THEN "None"
             ELSE IF z[i].kind = "Left" THEN "Less"
             ELSE "Greater"

\* A comparison that walks the RDNs from the left.
PartialCmpFromLeft(this, other) == CmpOfZip(ZipLongest(this, other))

\* impl PartialOrd for SimpleDN: partial_cmp walks both lists of RDNs from
\* the right.
PartialCmp(this, other) == CmpOfZip(ZipLongest(Reverse(this), Reverse(other)))

\* No DNs are compared.
OrderIdle ==
    /\ lhs = <<>>
    /\ rhs = <<>>
    /\ ordering = "none"

\* lhs.partial_cmp(&rhs)
PartialCmpCall ==
    /\ ordering = "none"
    /\ ordering' = PartialCmp(lhs, rhs)
    /\ UNCHANGED <<lhs, rhs>>
    /\ UNCHANGED <<moreVars, streamVars, sortVars, codecVars, clientVars, writeVars, authVars,
                   dnVars>>

\* rhs = lhs.parent(), taken when it is Some
ParentOfLhs ==
    /\ Parent(lhs).kind = "dn"
    /\ rhs' = Parent(lhs).rdns
    /\ ordering' = "none"
    /\ UNCHANGED lhs
    /\ UNCHANGED <<moreVars, streamVars, sortVars, codecVars, clientVars, writeVars, authVars,
                   dnVars>>

\* The two DNs change places.
SwapSides ==
    /\ lhs' = rhs
    /\ rhs' = lhs
    /\ ordering' = "none"
    /\ UNCHANGED <<moreVars, streamVars, sortVars, codecVars, clientVars, writeVars, authVars,
                   dnVars>>

\* --------------------------------------------------------- specifications
\* Nothing but searches happens.
MoreIdle == AdapterIdle /\ EncIdle /\ ConnIdle

RestIdle == WriteIdle /\ AuthIdle /\ DnIdle /\ OrderIdle /\ MoreIdle

Init == StreamInit /\ SortIdle /\ CodecIdle /\ ClientIdle /\ RestIdle

Next ==
    \/ \E isPaged \in BOOLEAN, p \in 0..MaxPageSize, rs \in ResultSets :
          StreamingSearch(isPaged, p, rs)
    \/ StartFails
    \/ Poll
    \/ PollEnded
    \/ NextEntry
    \/ NextPageResult
    \/ NextPage
    \/ NextPageFails
    \/ NextDone
    \/ NextError
    \/ Drop
    \/ ServerEntry
    \/ ServerDone
    \/ \E rc \in FailCodes : ServerFail(rc)
    \/ ConnLost

Spec == Init /\ [][Next]_vars

\* A caller that keeps polling: it never drops the stream (while let
\* Some(..) = stream.next().await), the runtime runs every poll to its
\* answer, and the server answers every request it has accepted while the
\* connection is up.
PollingNext ==
    \/ \E isPaged \in BOOLEAN, p \in 0..MaxPageSize, rs \in ResultSets :
          StreamingSearch(isPaged, p, rs)
    \/ StartFails
    \/ Poll
    \/ PollEnded
    \/ NextEntry
    \/ NextPageResult
    \/ NextPage
    \/ NextPageFails
    \/ NextDone
    \/ NextError
    \/ ServerEntry
    \/ ServerDone
    \/ \E rc \in FailCodes : ServerFail(rc)
    \/ ConnLost

PollingFairness ==
    /\ WF_vars(Poll) /\ WF_vars(PollEnded)
    /\ WF_vars(NextEntry) /\ WF_vars(NextPageResult) /\ WF_vars(NextPage)
    /\ WF_vars(NextPageFails)
    /\ WF_vars(NextDone) /\ WF_vars(NextError)
    /\ WF_vars(ServerEntry) /\ WF_vars(ServerDone)

PollingSpec == Init /\ [][PollingNext]_vars /\ PollingFairness

\* An adapter chain from the construction of the sort adapter to the last
\* page, on a handle that does nothing else.
SortInit ==
    /\ StreamInit /\ finishCloses
    /\ cpc = "new"
    /\ resendsAll \in BOOLEAN
    /\ sortNew = NoSortNew
    /\ adapters = <<>>
    /\ controls = <<>>
    /\ requests = <<>>
    /\ chainStart = NoStart
    /\ CodecIdle
    /\ ClientIdle
    /\ RestIdle

SortNext ==
    \/ \E sorts \in SortLists : ServerSideSortNewCall(sorts)
    \/ \E shape \in ChainShapes, pre \in BOOLEAN, p \in 1..MaxPageSize, rs \in ResultSets :
          StreamingSearchWith(shape, pre, p, rs)
    \/ ChainNextPage

SortSpec == SortInit /\ [][SortNext]_vars

\* The decoding of one response control value.
CodecInit ==
    /\ StreamInit /\ finishCloses
    /\ SortIdle
    /\ payload \in Payloads
    /\ decoded = NotDecoded
    /\ ClientIdle
    /\ RestIdle

CodecNext == GetResponseControl

CodecSpec == CodecInit /\ [][CodecNext]_vars

\* One call of the sort adapter's next or finish, on a stream whose result
\* has no sort response control or one with any value.
AdapterInit ==
    /\ StreamInit /\ finishCloses
    /\ SortIdle
    /\ payload \in Payloads
    /\ decoded = NotDecoded
    /\ ClientIdle
    /\ WriteIdle /\ AuthIdle /\ DnIdle /\ OrderIdle /\ EncIdle /\ ConnIdle
    /\ sres \in {"None", "NoControl", "Control"}
    /\ inner = NoInner
    /\ adapterOut = NoInner

AdapterNext ==
    \/ \E inr \in InnerNexts : ServerSideSortNextCall(inr)
    \/ \E result \in InnerFinishes : ServerSideSortFinishCall(result)

AdapterSpec == AdapterInit /\ [][AdapterNext]_vars

\* The encoding of one sort request control.
EncInit ==
    /\ StreamInit /\ finishCloses
    /\ SortIdle /\ CodecIdle /\ ClientIdle
    /\ WriteIdle /\ AuthIdle /\ DnIdle /\ OrderIdle /\ AdapterIdle /\ ConnIdle
    /\ sort_key_list \in SortKeyLists
    /\ raw = NoRaw

EncNext == RawControlFrom

EncSpec == EncInit /\ [][EncNext]_vars

\* The clones of one client, each with a task of its own, on a runtime of
\* one thread or of several; the driver and an answered cleanup go on.
ConnInit ==
    /\ StreamInit
    /\ SortIdle /\ CodecIdle /\ ClientIdle
    /\ WriteIdle /\ AuthIdle /\ DnIdle /\ OrderIdle /\ AdapterIdle /\ EncIdle
    /\ singleThread \in BOOLEAN
    /\ nextId = 2
    /\ lastIds = [c \in Clones |-> [client |-> 0, stream |-> 0]]
    /\ phase = [c \in Clones |-> "idle"]
    /\ sstate = [c \in Clones |-> "Fresh"]
    /\ opq = <<>>
    /\ wire = <<>>
    /\ replied = {}

ConnNext ==
    \/ \E c \in Clones : CloneStreamingSearch(c)
    \/ \E c \in Clones : CloneNextPage(c)
    \/ \E c \in Clones, st \in {"Done", "Error"} : CloneStreamEnds(c, st)
    \/ \E c \in Clones : CloneOperation(c)
    \/ \E c \in Clones : CloneDrop(c)
    \/ Drive
    \/ \E c \in Clones : CloneDropReturns(c)

ConnFairness ==
    /\ WF_vars(Drive)
    /\ \A c \in Clones : WF_vars(CloneDropReturns(c))

ConnSpec == ConnInit /\ [][ConnNext]_vars /\ ConnFairness

\* The clients of a pool, used by tasks that run side by side.
ClientInit ==
    StreamInit /\ finishCloses /\ SortIdle /\ CodecIdle /\ ClientIdle /\ RestIdle

ClientNext ==
    \/ \E h \in Handles, unbindOk \in BOOLEAN : PoolGet(h, unbindOk)
    \/ \E h \in Handles : PoolReturn(h)
    \/ \E h \in Handles, transport \in BOOLEAN, rc \in SearchResultCodes,
          records \in SearchResults, deserializes \in BOOLEAN :
          ClientSearch(h, transport, rc, records, deserializes)
    \/ \E h \in Handles : ClientStreamingSearch(h)
    \/ \E h \in Handles : ClientStreamDrop(h)

ClientSpec == ClientInit /\ [][ClientNext]_vars

\* One call after another of the operations that change entries.
WriteInit ==
    StreamInit /\ finishCloses /\ SortIdle /\ CodecIdle /\ ClientIdle /\ RestIdle

WriteNext ==
    \/ \E transport \in BOOLEAN, rc \in WriteResultCodes, new_uid \in NewUids,
          transport2 \in BOOLEAN, rc2 \in WriteResultCodes :
          Update(transport, rc, new_uid, transport2, rc2)
    \/ \E transport \in BOOLEAN, rc \in WriteResultCodes : Delete(transport, rc)
    \/ \E transport \in BOOLEAN, rc \in WriteResultCodes : AddUsersToGroup(transport, rc)
    \/ \E transport \in BOOLEAN, rc \in WriteResultCodes :
          RemoveUsersFromGroup(transport, rc)

WriteSpec == WriteInit /\ [][WriteNext]_vars

\* The clients of a pool that authenticate users.
SessionInit ==
    StreamInit /\ finishCloses /\ SortIdle /\ CodecIdle /\ ClientIdle /\ RestIdle

SessionNext ==
    \/ \E h \in Handles, unbindOk \in BOOLEAN : PoolGet(h, unbindOk)
    \/ \E h \in Handles : PoolReturn(h)
    \/ \E h \in Handles, c \in AuthCalls : ClientAuthenticate(h, c)

SessionSpec == SessionInit /\ [][SessionNext]_vars

\* A string is parsed into a DN, and the DN is taken apart.
DnInit ==
    /\ StreamInit /\ finishCloses /\ SortIdle /\ CodecIdle /\ ClientIdle
    /\ WriteIdle /\ AuthIdle /\ OrderIdle /\ MoreIdle
    /\ dnText \in Texts
    /\ dn = NoDN
    /\ dnType = "none"

DnNext ==
    \/ FromStrCall
    \/ ParentCall
    \/ \E key \in {<<k>> : k \in Alphanumeric} : GetStartingFromCall(key)
    \/ GetTypeCall

DnSpec == DnInit /\ [][DnNext]_vars

\* Two DNs are compared.
OrderInit ==
    /\ StreamInit /\ finishCloses /\ SortIdle /\ CodecIdle /\ ClientIdle
    /\ WriteIdle /\ AuthIdle /\ DnIdle /\ MoreIdle
    /\ lhs \in DNs
    /\ rhs \in DNs
    /\ ordering = "none"

OrderNext ==
    \/ PartialCmpCall
    \/ ParentOfLhs
    \/ SwapSides

OrderSpec == OrderInit /\ [][OrderNext]_vars

\* ------------------------------------------------------------------ claims
\* The stream ended by itself: its first answer that is not an item is
\* the end of the stream.
EndedNormally == "end" \in Range(yields) /\ ~Erred

AbandonsInLog == {i \in 1..Len(cleanupLog) : cleanupLog[i] = "abandon"}

\* C1: every stream runs cleanup exactly once however the caller stops
\* consuming: never while the stream still holds its wrapper, and exactly
\* once when it has ended (drained, or after an Err item) or was dropped.
C1_CleanupExactlyOnce ==
    /\ pc \in {"none", "nostream", "idle", "polling"} => cleanupRuns = 0
    /\ pc \in {"ended", "dropped"} => cleanupRuns = 1

\* C1 witness: a stream dropped before its first poll has been cleaned up.
C1_Witness == pc = "dropped" /\ yields = <<>> /\ cleanupRuns = 1

\* C2 scenario: page size 2, 3 entries, exactly one entry pulled, then
\* the stream is dropped on a live connection.
C2_Scenario ==
    /\ pc = "dropped"
    /\ paged /\ page_size = 2 /\ Len(resultSet) = 3
    /\ yields = <<"item">>
    /\ connAlive

\* C2: in that scenario exactly one abandon request was sent and the
\* stream's final state is Closed.
C2_OneAbandonAndClosed ==
    C2_Scenario => (Cardinality(AbandonRequests) = 1 /\ state = "Closed")

C4_NoActionWhenDone ==
    (cleanupRuns >= 1 /\ cleanupEntry.state \in {"Done", "Closed"}) =>
        /\ "finish" \notin Range(cleanupLog)
        /\ AbandonsInLog = {}
        /\ AbandonRequests = {}

\* C4 amended: a cleanup that starts with the stream Done or Closed calls
\* finish on the search handle but sends no abandon request.
C4_FinishButNoAbandonWhenDone ==
    (cleanupRuns >= 1 /\ cleanupEntry.state \in {"Done", "Closed"}) =>
        /\ "finish" \in Range(cleanupLog)
        /\ AbandonsInLog = {}
        /\ AbandonRequests = {}

\* C4 witness: cleanup ran on a stream that was read to its end.
C4_Witness == cleanupRuns = 1 /\ cleanupEntry.state = "Done" /\ state = "Closed"

\* C5: cleanup reports nothing to the caller and always runs to its end:
\* it always reaches the re-check of the state; the user-cancelled result
\* of finish is not logged as an error; another finish error is logged and
\* the stream still ended without an Err item; a failed abandon is logged
\* and the stream yielded no Err item; and a stream found Fresh or Active
\* at the re-check has had its abandon attempted.
C5_CleanupSwallowsErrors ==
    cleanupRuns >= 1 =>
        /\ "recheck" \in Range(cleanupLog)
        /\ cleanupEntry.rc = RcUserCancelled => "finish_error_logged" \notin Range(cleanupLog)
        /\ (~SuccessRc(cleanupEntry.rc) /\ cleanupEntry.rc # RcUserCancelled) =>
              /\ "finish_error_logged" \in Range(cleanupLog)
              /\ ~Erred
        /\ "abandon_error_logged" \in Range(cleanupLog) => ~Erred
        /\ state \in {"Fresh", "Active"} => AbandonsInLog # {}

\* C5 witness: finish reported a server error, cleanup logged it and went
\* on to the re-check.
C5_Witness ==
    /\ cleanupRuns = 1
    /\ cleanupEntry.rc \in FailCodes
    /\ cleanupLog = <<"finish", "finish_error_logged", "recheck">>

\* C6: when the server ended the search with a non-success result code the
\* caller's sequence has an Err item (it did not end normally).
C6_FailedSearchYieldsErr ==
    (cleanupRuns >= 1 /\ cleanupEntry.state = "Done" /\ ~SuccessRc(cleanupEntry.rc)) => Erred

\* C7: once the stream has yielded an Err item, a poll only ever answers
\* end-of-stream, no entry is delivered and no request is sent.
C7_NothingAfterErr ==
    [][Erred => /\ (yields' = yields \/ yields' = Append(yields, "end"))
                /\ delivered' = delivered
                /\ sent' = sent]_vars

\* C7 witness: a stream that yielded Err was polled again and answered
\* end-of-stream.
C7_Witness == Erred /\ endPolls >= 1 /\ LastYield = "end"

\* The paged search, with pages of at least one entry, delivered its whole
\* result set and ended.
FullyRetrieved ==
    paged /\ page_size >= 1 /\ EndedNormally /\ Len(delivered) = Len(resultSet)

\* C8 as claimed: the number of search requests after the first is
\* ceil(N / P) - 1 for every result set of size N.
C8_ContinuationCount ==
    FullyRetrieved =>
        Cardinality(SearchRequests) - 1 = CeilDiv(Len(resultSet), page_size) - 1

\* C8 amended: the number of search requests after the first is
\* ceil(N / P) - 1 for N >= 1, and 0 for the empty result set.
C8_ContinuationCountNonEmpty ==
    FullyRetrieved =>
        Cardinality(SearchRequests) - 1 = Max(CeilDiv(Len(resultSet), page_size), 1) - 1

\* C8 witness: 3 entries read to the end with page size 2 took exactly one
\* continuation request.
C8_Witness ==
    /\ FullyRetrieved /\ Len(resultSet) = 3 /\ page_size = 2
    /\ Cardinality(SearchRequests) = 2

\* C9: the entries delivered are always a prefix of the server's sequence
\* (nothing lost, duplicated or reordered at a page boundary), and a stream
\* that ended after the server's successful final result, paged or not, has
\* delivered exactly that sequence.
C9_SameSequenceAsUnpaged ==
    /\ IsPrefix(delivered, resultSet)
    /\ (EndedNormally /\ cleanupEntry.state = "Done" /\ SuccessRc(cleanupEntry.rc)) =>
          delivered = resultSet

\* C9 witness: a paged search across at least one page boundary delivered
\* the whole sequence.
C9_Witness ==
    /\ paged /\ Len(resultSet) > page_size /\ EndedNormally
    /\ delivered = resultSet /\ Cardinality(SearchRequests) >= 2

\* Page requests the server has not answered, or whose answer the stream
\* has not read yet.
OutstandingPages ==
    (IF srv.active THEN 1 ELSE 0) + Cardinality({i \in 1..Len(rx) : rx[i].kind = "done"})

\* A continuation request is written in this step.
ContinuationSent ==
    /\ Len(sent') = Len(sent) + 1
    /\ sent'[Len(sent')].op = "search"
    /\ SearchRequests # {}

\* C10: at most one page request is outstanding at any time, and a
\* continuation request is sent only within a poll of the caller, when the
\* previous page is complete and every entry the server sent has been
\* delivered.
C10_PagesSequential ==
    /\ [](OutstandingPages <= 1)
    /\ [][ContinuationSent =>
            /\ pc = "polling"
            /\ ~srv.active
            /\ Len(delivered) = srv.pos
            /\ \A i \in 1..Len(rx) : rx[i].kind # "entry"]_vars

\* C10 witness: a second continuation request was sent, each after the page
\* before it had been delivered.
C10_Witness ==
    /\ Cardinality(SearchRequests) = 3
    /\ Len(delivered) = 2 * page_size

\* The stream is in a poll and the next thing it reads is the result of a
\* page whose cookie is empty.
LastPageArrived ==
    /\ pc = "polling" /\ rx # <<>>
    /\ Head(rx).kind = "done" /\ Head(rx).cookie = EmptyCookie

\* The stream has taken a page result with an empty cookie.
LastPageTaken == res # NoRes /\ res.cookie = EmptyCookie

\* C11: the page loop terminates. A poll that reads a page result with an
\* empty cookie sends no search request and can answer nothing but the end
\* of the stream; no search request is sent once such a result was taken
\* or the stream has ended; and a caller that keeps polling a stream
\* eventually gets end-of-stream.
C11_PageLoopTerminates ==
    /\ [][LastPageArrived =>
            /\ SearchRequests' = SearchRequests
            /\ (yields' = yields \/ yields' = Append(yields, "end"))]_vars
    /\ [][LastPageTaken => SearchRequests' = SearchRequests]_vars
    /\ [][LastYield = "end" => SearchRequests' = SearchRequests]_vars
    /\ (pc = "idle") ~> (LastYield = "end")

\* C11 witness: a paged search of 3 entries in pages of 1 ended after its
\* third page came back with an empty cookie, and was polled once more.
C11_Witness ==
    /\ paged /\ page_size = 1 /\ Len(resultSet) = 3 /\ delivered = resultSet
    /\ Cardinality(SearchRequests) = 3 /\ res.cookie = EmptyCookie
    /\ LastYield = "end" /\ endPolls = 1

\* C12: a paged streaming search called with page size 0 runs without the
\* paging adapter: none of its requests carries the paged-results control
\* and it sends no continuation request.
C12_PageSizeZeroUnpaged ==
    (paged /\ page_size = 0) =>
        /\ \A i \in SearchRequests : ~sent[i].paged
        /\ Cardinality(SearchRequests) <= 1

\* A search has been started (or refused) on the adapter chain.
ChainRan == cpc \in {"started", "drained", "failed"}

SortControlsOf(req) == ControlsOf(req, SERVER_SIDE_SORT_REQUEST_OID)

\* The chain holds the sort adapter and the paging adapter, in either
\* order, and its first request was written.
SortedPagedRun ==
    /\ ChainRan /\ requests # <<>>
    /\ Len(adapters) = 2
    /\ {adapters[1].kind, adapters[2].kind} = {"sort", "paged"}

C14_SameSortControlOnEveryPage ==
    SortedPagedRun =>
        /\ \A i \in 1..Len(requests) :
              /\ Cardinality(SortControlsOf(requests[i])) = 1
              /\ FirstControl(requests[i], SERVER_SIDE_SORT_REQUEST_OID).keys
                    = [k \in 1..Len(sortNew.result.sorts) |->
                          SortKeyFromSortBy(sortNew.result.sorts[k])]
        /\ cpc # "failed"

\* C15: ServerSideSort::new answers the duplicate-attribute error exactly
\* when some attribute occurs more than once in its argument, and otherwise
\* keeps the list as it was given, in order.
C15_DuplicatesRejected ==
    cpc \notin {"off", "new"} =>
        /\ ~sortNew.result.ok <=>
              \E i, j \in 1..Len(sortNew.input) :
                  i # j /\ sortNew.input[i].attribute = sortNew.input[j].attribute
        /\ sortNew.result.ok => sortNew.result.sorts = sortNew.input

\* C15 witness: cn ascending followed by cn descending was refused, naming cn.
C15_Witness ==
    /\ cpc = "rejected"
    /\ sortNew.input = <<[attribute |-> "cn", reverse |-> FALSE],
                         [attribute |-> "cn", reverse |-> TRUE]>>
    /\ sortNew.result.attributes = {"cn"}

\* The first sort adapter the last run of start came to.
FirstSortAdapter ==
    CHOOSE k \in chainStart.from..Len(adapters) :
        /\ adapters[k].kind = "sort"
        /\ \A j \in chainStart.from..(k - 1) : adapters[j].kind # "sort"

\* C16: when start runs down to a sort adapter with a sort control already
\* in the control list, it fails there: no request is written, the next
\* start is not invoked, the control list is what it was plus the controls
\* of the adapters before it, and the adapter's sort list is not taken (it
\* is the list it was built with at the first start, and the failing step
\* of a continuation leaves every adapter as it was).
C16_ConflictRefusedBeforeDispatch ==
    /\ [](  (/\ ChainRan
             /\ HasControl(chainStart.before, SERVER_SIDE_SORT_REQUEST_OID)
             /\ \E k \in chainStart.from..Len(adapters) : adapters[k].kind = "sort") =>
                LET k == FirstSortAdapter
                IN  /\ ~chainStart.ok /\ cpc = "failed"
                    /\ chainStart.reached = k
                    /\ Len(requests) = chainStart.nreq
                    /\ chainStart.from = 1 => adapters[k].sorts = sortNew.result.sorts
                    /\ controls = chainStart.before \o
                            [i \in 1..(k - chainStart.from) |->
                                PagedControl(adapters[chainStart.from + i - 1].size, EmptyCookie)])
    /\ [][(/\ cpc = "started" /\ cpc' = "failed"
           /\ HasControl(chainStart'.before, SERVER_SIDE_SORT_REQUEST_OID)) =>
                /\ adapters' = adapters
                /\ requests' = requests]_vars

\* C16 witness: a search with the sort adapter first, on a handle that
\* carried a sort control, was refused by the adapter with nothing written.
C16_Witness ==
    /\ cpc = "failed" /\ chainStart.from = 1 /\ chainStart.reached = 1
    /\ HasControl(chainStart.before, SERVER_SIDE_SORT_REQUEST_OID)
    /\ Len(adapters) = 2 /\ adapters[1].kind = "sort" /\ adapters[2].kind = "paged"
    /\ requests = <<>> /\ controls = chainStart.before

\* C17: a chain with two sort adapters fails at start, the second adapter
\* finding the control of the first, and no request with two sort controls
\* is ever written.
C17_TwoSortAdaptersFail ==
    /\ \A i \in 1..Len(requests) : Cardinality(SortControlsOf(requests[i])) <= 1
    /\ (ChainRan /\ Len(adapters) = 2
        /\ adapters[1].kind = "sort" /\ adapters[2].kind = "sort") =>
          /\ cpc = "failed" /\ ~chainStart.ok /\ requests = <<>>
          /\ chainStart.before = <<>> => chainStart.reached = 2

\* C17 witness: the second of two sort adapters refused the search with the
\* control of the first in the list.
C17_Witness ==
    /\ cpc = "failed" /\ Len(adapters) = 2
    /\ adapters[1].kind = "sort" /\ adapters[2].kind = "sort"
    /\ chainStart.before = <<>> /\ chainStart.reached = 2
    /\ Cardinality(SortControlsOf(controls)) = 1 /\ requests = <<>>

\* A control value as RFC 2891 defines it: a sequence that starts with an
\* ENUMERATED sort result, whose optional [0] attribute type is UTF-8.
WellFormedResponse(val) ==
    /\ val.ber /\ val.constructed /\ val.elems # <<>>
    /\ val.elems[1].class = "universal" /\ val.elems[1].id = 10
    /\ ~val.elems[1].constructed
    /\ val.elems[1].num \in SortResultCodes
    /\ AttributeType(val.elems) # "panic" \/ val.elems[1].num = 0

\* C18: decoding a response control never panics, and a malformed control
\* value gives a decode error.
C18_MalformedIsTypedError ==
    decoded.kind # "none" =>
        /\ decoded.kind # "panic"
        /\ ~WellFormedResponse(payload) => decoded.kind = "error"

OneEntryWithSuccess ==
    call.transport /\ SuccessRc(call.rc) /\ Len(call.records) = 1

\* What is common to C20 as claimed and as amended: a failed call or a
\* result that is not success gives Error::Query; with success, no entry
\* gives Error::NotFound and more than one Error::MultipleResults.
SearchErrors ==
    /\ (~call.transport \/ ~SuccessRc(call.rc)) => answer.kind = "Query"
    /\ (call.transport /\ SuccessRc(call.rc) /\ call.records = <<>>) =>
          answer.kind = "NotFound"
    /\ (call.transport /\ SuccessRc(call.rc) /\ Len(call.records) > 1) =>
          answer.kind = "MultipleResults"

\* C20 as claimed: the search returns a record exactly when the server
\* returned one entry with a success result.
C20_RecordIffOneEntry ==
    answer.kind # "none" =>
        /\ answer.kind = "record" <=> OneEntryWithSuccess
        /\ SearchErrors

\* C20 amended: the search returns a record (the server's entry) exactly
\* when the server returned one entry with a success result and the entry
\* deserializes into the caller's type; one entry that does not gives
\* Error::Mapping.
C20_RecordIffOneEntryThatMaps ==
    answer.kind # "none" =>
        /\ answer.kind = "record" <=> (OneEntryWithSuccess /\ call.deserializes)
        /\ answer.kind = "record" => answer.entry = call.records[1]
        /\ (OneEntryWithSuccess /\ ~call.deserializes) => answer.kind = "Mapping"
        /\ SearchErrors

\* C20 witness: one entry came with success and did not fit the caller's
\* type: Error::Mapping.
C20_Witness ==
    /\ OneEntryWithSuccess /\ call.rc = 0 /\ ~call.deserializes
    /\ answer.kind = "Mapping"

\* C21 (as stated): update, delete, add_users_to_group and
\* remove_users_from_group return Ok(()) only if every server operation
\* they issued came back with a result the transport counts as success.
C21_OkOnlyIfEverySuccess ==
    wanswer = "Ok" =>
        \A i \in 1..Len(wsent) : wsent[i].done /\ SuccessRc(wsent[i].rc)

\* C22: an update or a delete whose first request the server answers with
\* result code 32 returns Error::NotFound and has issued that one request
\* only, so no rename.
C22_NoSuchObjectIsNotFound ==
    (/\ wcall.op \in {"update", "delete"}
     /\ wcall.transport
     /\ wcall.rc = NO_SUCH_RECORD) =>
        /\ wanswer = "NotFound"
        /\ Len(wsent) = 1
        /\ wsent[1].req \in {"modify", "delete"}

\* C22 witness: an update that asked for another uid got result code 32
\* for its modify, returned NotFound and sent no modifydn.
C22_Witness ==
    /\ wcall.op = "update" /\ wcall.new_uid = "other"
    /\ wcall.transport /\ wcall.rc = NO_SUCH_RECORD
    /\ wanswer = "NotFound"
    /\ wsent = <<Issued("modify", TRUE, NO_SUCH_RECORD)>>

\* The server answered the search of the last authenticate.
AuthSearchAnswered == auth.h # 0 /\ auth.transport

\* C23 (as stated): authenticate returns Ok exactly when one entry
\* matched, it has the DN attribute and the bind succeeded; zero matches
\* give NotFound, more than one MultipleResults, a missing DN attribute
\* or a failed bind AuthenticationFailed; no bind unless exactly one entry
\* matched.
C23_AuthenticateOutcomes ==
    auth.h # 0 =>
        /\ authAnswer.kind = "Ok" <=>
                (/\ AuthSearchAnswered /\ Len(auth.records) = 1 /\ auth.hasDn
                 /\ authAnswer.bind = "bound")
        /\ (AuthSearchAnswered /\ auth.records = <<>>) => authAnswer.kind = "NotFound"
        /\ (AuthSearchAnswered /\ Len(auth.records) > 1) =>
                authAnswer.kind = "MultipleResults"
        /\ (AuthSearchAnswered /\ Len(auth.records) = 1 /\ SuccessRc(auth.rc)
                /\ (~auth.hasDn \/ authAnswer.bind \in {"lost", "refused"})) =>
                authAnswer.kind = "AuthenticationFailed"
        /\ authAnswer.bind # "none" => Len(auth.records) = 1

\* C23 (amended): the same for a search that ended with a success result;
\* a search that failed, or ended with another result, gives Error::Query
\* whatever the number of entries, and no bind is attempted.
C23_AuthenticateOutcomesOfSuccessfulSearch ==
    auth.h # 0 =>
        LET found == AuthSearchAnswered /\ SuccessRc(auth.rc)
        IN  /\ authAnswer.kind = "Ok" <=>
                    (/\ found /\ Len(auth.records) = 1 /\ auth.hasDn
                     /\ authAnswer.bind = "bound")
            /\ ~found => authAnswer.kind = "Query"
            /\ (found /\ auth.records = <<>>) => authAnswer.kind = "NotFound"
            /\ (found /\ Len(auth.records) > 1) => authAnswer.kind = "MultipleResults"
            /\ (found /\ Len(auth.records) = 1
                    /\ (~auth.hasDn \/ authAnswer.bind \in {"lost", "refused"})) =>
                    authAnswer.kind = "AuthenticationFailed"
            /\ authAnswer.bind # "none" => (found /\ Len(auth.records) = 1 /\ auth.hasDn)
            /\ authAnswer.bind = "bound" <=>
                    (/\ found /\ Len(auth.records) = 1 /\ auth.hasDn
                     /\ auth.bindTransport /\ SuccessRc(auth.bindRc))

\* C23 witness: one entry with the DN attribute and an accepted bind gave
\* Ok.
C23_Witness ==
    /\ auth.h # 0 /\ Len(auth.records) = 1 /\ auth.hasDn /\ auth.bindRc = 0
    /\ authAnswer = AuthAnswer("Ok", "bound")

\* C24 (as stated): a call of authenticate leaves every client with the
\* identity it had.
C24_AuthenticateKeepsIdentity ==
    [][(auth' # auth \/ authAnswer' # authAnswer) => session' = session]_vars

\* C25 (as stated): every client a caller holds, created or recycled, has
\* a connection that is open.
C25_HandedOutClientsAreLive ==
    \A h \in Handles : place[h] = "held" => Live(h)

\* C26 (as stated): every SimpleDN that from_str, parent or
\* get_starting_from gives has an RDN at least, and get_type does not
\* panic.
C26_NeverEmpty ==
    /\ dn.kind = "dn" => dn.rdns # <<>>
    /\ dnType # "panic"

\* a's RDNs are the last RDNs of b, and b has more.
ProperSuffix(a, b) ==
    Len(a) < Len(b) /\ SubSeq(b, Len(b) - Len(a) + 1, Len(b)) = a

\* C27: partial_cmp is DN ancestry: Equal exactly for equal DNs, Greater
\* exactly when lhs is a proper suffix of rhs, Less exactly when rhs is a
\* proper suffix of lhs, None otherwise; lhs < rhs exactly when rhs > lhs;
\* a DN with a parent is Less than its parent.
C27_OrderIsAncestry ==
    ordering # "none" =>
        /\ ordering = "Equal" <=> lhs = rhs
        /\ ordering = "Greater" <=> ProperSuffix(lhs, rhs)
        /\ ordering = "Less" <=> ProperSuffix(rhs, lhs)
        /\ ordering = "None" <=>
                (lhs # rhs /\ ~ProperSuffix(lhs, rhs) /\ ~ProperSuffix(rhs, lhs))
        /\ ordering = "Less" <=> PartialCmp(rhs, lhs) = "Greater"
        /\ (Parent(lhs).kind = "dn" /\ rhs = Parent(lhs).rdns) => ordering = "Less"

\* C27 witness: a DN of three RDNs whose first two are not its last two
\* was compared with its parent and is Less.
C27_Witness ==
    /\ Len(lhs) = 3 /\ lhs[1] # lhs[2] /\ lhs[2] # lhs[3]
    /\ rhs = Parent(lhs).rdns
    /\ ordering = "Less"

\* The place of a state on the way Fresh -> Active -> {Done, Error} -> Closed.
StateRank(st) ==
    CASE st = "Fresh" -> 0
      [] st = "Active" -> 1
      [] st \in {"Done", "Error"} -> 2
      [] st = "Closed" -> 3

\* The stream stays in its state or moves on along the way.
Forward(a, b) == a = b \/ StateRank(a) < StateRank(b)

\* The paging adapter starts a stream again that is Done with the result of
\* a page whose cookie is not empty: the stream is Active again, or in
\* Error when the start failed.
Restart(a, b) ==
    /\ a = "Done" /\ b \in {"Active", "Error"}
    /\ paged /\ pc = "polling" /\ res.cookie # EmptyCookie

\* What a step that runs cleanup does to the state: the transport brings
\* the stream to the state cleanup finds, and from there the state is what
\* finish makes of it.
CleanupOnlyReads ==
    cleanupRuns' # cleanupRuns =>
        state' = FinishInner(cleanupEntry'.state, NoRes).state

\* C28 (as stated): the state only moves on along Fresh -> Active ->
\* {Done, Error} -> Closed, no state is entered a second time, and a state
\* change during cleanup is the one finish makes.
C28_MonotonicAndCleanupReads ==
    [][/\ IF cleanupRuns' # cleanupRuns
          THEN Forward(state, cleanupEntry'.state) /\ Forward(cleanupEntry'.state, state')
          ELSE Forward(state, state')
       /\ CleanupOnlyReads]_vars

\* C28 (amended): the same, but for the restart of the paging adapter,
\* which takes a Done stream back to Active (or to Error) for the next
\* page.
C28_MonotonicBetweenRestarts ==
    [][/\ IF cleanupRuns' # cleanupRuns
          THEN /\ Forward(state, cleanupEntry'.state) \/ Restart(state, cleanupEntry'.state)
               /\ Forward(cleanupEntry'.state, state')
          ELSE Forward(state, state') \/ Restart(state, state')
       /\ CleanupOnlyReads]_vars

\* C28 witness: a search that went through a second page request was
\* dropped while Active, and finish left the stream Closed.
C28_Witness ==
    /\ pc = "dropped" /\ cleanupRuns = 1
    /\ Cardinality(SearchRequests) >= 2
    /\ cleanupEntry.state = "Active" /\ state = "Closed"

\* The search requests of the stream and the greatest of their ids.
LastSearchId ==
    LET ids == {sent[i].id : i \in SearchRequests}
    IN  CHOOSE m \in ids : \A n \in ids : n <= m

\* C29 as stated: a cleanup that finds the stream Fresh or Active after
\* finish sends exactly one abandon request, for the id of the last request
\* issued on the handle of the stream; one that finds it Done or Closed
\* sends none.
C29_SendsOneAbandon ==
    cleanupRuns >= 1 =>
        /\ state \in {"Fresh", "Active"} =>
                /\ Cardinality(AbandonRequests) = 1
                /\ \A i \in AbandonRequests : sent[i].target = LastSearchId
        /\ state \in {"Done", "Closed"} => AbandonRequests = {}

\* C29 amended: a cleanup that finds the stream Fresh or Active after finish calls
\* abandon exactly once, for the id of the last request issued on the
\* handle of the stream, the most recent page request of a paged search;
\* on a connection that is up that is exactly one abandon request, and on
\* a connection that is gone the failure is logged. A cleanup that finds
\* the stream Done or Closed calls no abandon.
C29_AbandonsLastOperation ==
    cleanupRuns >= 1 =>
        /\ state \in {"Fresh", "Active"} =>
                /\ Cardinality(AbandonsInLog) = 1
                /\ Cardinality(AbandonRequests) <= 1
                /\ \A i \in AbandonRequests :
                        /\ sent[i].target = LastSearchId
                        /\ i = Len(sent)
                /\ AbandonRequests = {} =>
                        cleanupLog[Len(cleanupLog)] = "abandon_error_logged"
                /\ AbandonRequests # {} => cleanupLog[Len(cleanupLog)] = "abandon"
        /\ state \in {"Done", "Closed"} =>
                AbandonsInLog = {} /\ AbandonRequests = {}

\* C29 witness: a paged search that had asked for a second page was
\* dropped, finish left it Active, and the abandon names the request of
\* the second page.
C29_Witness ==
    /\ cleanupRuns = 1 /\ state = "Active"
    /\ Cardinality(SearchRequests) = 2
    /\ \E i \in AbandonRequests :
          /\ sent[i].target = LastSearchId
          /\ sent[i].target # FirstSearchId

\* C30: a cleanup that finds the stream in Error after finish calls no
\* abandon and sends nothing: after finish and the look at the state it
\* only logs.
C30_ErrorOnlyLogs ==
    (cleanupRuns >= 1 /\ state = "Error") =>
        /\ AbandonsInLog = {} /\ AbandonRequests = {}
        /\ \A i \in 1..Len(sent) : sent[i].op = "search"
        /\ cleanupLog = FinishLog(cleanupEntry.rc) \o <<"recheck", "error_state_logged">>

\* C30 witness: a stream whose connection broke was cleaned up in Error,
\* and the log has the error and no abandon.
C30_Witness ==
    /\ cleanupRuns = 1 /\ state = "Error" /\ cleanupEntry.state = "Error"
    /\ Erred
    /\ cleanupLog[Len(cleanupLog)] = "error_state_logged"

\* The key list the sort adapter was configured with, as sort keys.
ConfiguredKeys ==
    [k \in 1..Len(sortNew.result.sorts) |-> SortKeyFromSortBy(sortNew.result.sorts[k])]

\* The last run of start was a success and came through a sort adapter.
SortStartSucceeded ==
    /\ ChainRan /\ chainStart.ok /\ requests # <<>>
    /\ \E k \in chainStart.from..Len(adapters) : adapters[k].kind = "sort"

\* C31: a successful start of the sort adapter appends exactly one control
\* to the end of the control list it found (the controls that were there
\* and those of the adapters before it stay, in order); the control has the
\* request OID, is critical and holds the configured sort keys in their
\* order; the controls of the adapters behind it follow it.
C31_StartAppendsOneControl ==
    SortStartSucceeded =>
        LET k == FirstSortAdapter
            req == requests[Len(requests)]
            b == chainStart.before
            pos == Len(b) + (k - chainStart.from) + 1
        IN  /\ Len(req) = Len(b) + (Len(adapters) - chainStart.from + 1)
            /\ SubSeq(req, 1, Len(b)) = b
            /\ \A j \in (Len(b) + 1)..Len(req) :
                    j # pos => req[j].ctype = PAGED_RESULTS_OID
            /\ SortControlsOf(req) = {pos}
            /\ req[pos].crit
            /\ req[pos].keys = ConfiguredKeys

\* A control value that starts as RFC 2891 says: a sequence whose first
\* component is a primitive universal ENUMERATED.
HasSortResult(val) ==
    /\ val.ber /\ val.constructed /\ val.elems # <<>>
    /\ val.elems[1].class = "universal" /\ val.elems[1].id = 10
    /\ ~val.elems[1].constructed

\* C32: next forwards what the inner stream returned: the end of the
\* results and an error as they are; an entry as it is when the result has
\* no sort response control or one with Success; an entry that comes with
\* another sort result is a panic, never an entry and never an Err.
C32_NextForwards ==
    inner.op = "next" =>
        /\ inner.kind \in {"none", "err"} => adapterOut = inner
        /\ (inner.kind = "entry" /\ sres # "Control") => adapterOut = inner
        /\ (inner.kind = "entry" /\ sres = "Control" /\ HasSortResult(payload)) =>
              IF payload.elems[1].num = 0
              THEN adapterOut = inner
              ELSE adapterOut.kind = "panic"
        /\ adapterOut.kind = "err" => inner.kind = "err"
        /\ adapterOut.kind = "entry" => inner.kind = "entry"

\* C32 witness: an entry came with the sort result noSuchAttribute and
\* next panicked.
C32_Witness ==
    /\ inner.op = "next" /\ inner.kind = "entry" /\ sres = "Control"
    /\ HasSortResult(payload) /\ payload.elems[1].num = 16
    /\ adapterOut.kind = "panic"

\* C33: finish returns the result of the inner stream as it is, whatever
\* sort response control the result carries.
C33_FinishReturnsResult ==
    inner.op = "finish" => adapterOut = inner

\* C34: the enumerated integer is mapped to SortResult by the table only;
\* any other integer makes the decoding fail with a decode error, not with
\* a panic and not with a fallback value.
C34_UnknownCodeIsDecodeError ==
    (decoded.kind # "none" /\ HasSortResult(payload)) =>
        IF payload.elems[1].num \in SortResultCodes
        THEN decoded.kind = "response" => decoded.sort_result = payload.elems[1].num
        ELSE decoded.kind = "error"

\* A primitive context [0] component follows the sort result.
AttributeFollows(val) ==
    /\ Len(val.elems) >= 2
    /\ val.elems[2].class = "context" /\ val.elems[2].id = ATTRIBUTE_TYPE_TAG
    /\ ~val.elems[2].constructed

\* C35: with the sort result Success the decoded attribute type is None,
\* whatever follows the result code; with another sort result of the table
\* it is Some exactly when a [0] string follows the result code, None when
\* none does.
C35_AttributeTypeOnlyOnFailure ==
    (/\ decoded.kind # "none" /\ HasSortResult(payload)
     /\ payload.elems[1].num \in SortResultCodes) =>
        IF payload.elems[1].num = 0
        THEN decoded = Response(0, "None")
        ELSE /\ (AttributeFollows(payload) /\ payload.elems[2].utf8) =>
                    decoded = Response(payload.elems[1].num, "Some")
             /\ ~AttributeFollows(payload) =>
                    decoded = Response(payload.elems[1].num, "None")
             /\ (decoded.kind = "response" /\ decoded.attribute_type = "Some") =>
                    AttributeFollows(payload)

\* C35 witness: the code 16 with an attribute name behind it was decoded
\* to noSuchAttribute with Some(name).
C35_Witness ==
    /\ Len(payload.elems) = 2 /\ HasSortResult(payload)
    /\ payload.elems[1].num = 16
    /\ AttributeFollows(payload) /\ payload.elems[2].utf8
    /\ decoded = Response(16, "Some")

\* C36: the value of the control is a sequence of one sequence per sort
\* key, in the order of the list; each holds the attribute name as a
\* universal OCTET STRING first, then the ordering rule as [0] if and only
\* if the key has one, then the reverse flag as a [1] BOOLEAN, which is
\* always there and has the value of the key.
C36_KeyListEncoding ==
    raw # NoRaw =>
        /\ raw.val.type = "Sequence"
        /\ Len(raw.val.inner) = Len(sort_key_list)
        /\ \A i \in 1..Len(sort_key_list) :
              LET key == sort_key_list[i]
                  tag == raw.val.inner[i]
                  n == Len(tag.inner)
              IN  /\ tag.type = "Sequence" /\ tag.class = "universal" /\ tag.id = 16
                  /\ n = IF key.ordering_rule = "None" THEN 2 ELSE 3
                  /\ tag.inner[1] =
                        OctetStringTag("universal", 4, key.attribute_type)
                  /\ key.ordering_rule # "None" =>
                        tag.inner[2] = OctetStringTag("context", 0, key.ordering_rule)
                  /\ tag.inner[n] = BooleanTag("context", 1, key.reverse_order)

\* C36 witness: sn ascending without an ordering rule, then cn reversed
\* with one, were encoded as two sequences of 2 and 3 components.
C36_Witness ==
    /\ raw # NoRaw /\ Len(sort_key_list) = 2
    /\ sort_key_list[1] = [attribute_type |-> "sn", ordering_rule |-> "None",
                            reverse_order |-> FALSE]
    /\ sort_key_list[2].attribute_type = "cn" /\ sort_key_list[2].reverse_order
    /\ sort_key_list[2].ordering_rule # "None"
    /\ Len(raw.val.inner[1].inner) = 2 /\ Len(raw.val.inner[2].inner) = 3
    /\ ~raw.val.inner[1].inner[2].bool /\ raw.val.inner[2].inner[3].bool

\* The rename requests update issued.
RenamesSent == {i \in 1..Len(wsent) : wsent[i].req = "modifydn"}

\* C37: update sends the rename only when new_uid is given and differs
\* from uid ignoring ASCII case, and only after the modify came back with a
\* success; with new_uid absent or equal to uid no rename is sent, and
\* after a failed modify none is sent.
C37_RenameOnlyAfterModify ==
    wcall.op = "update" =>
        /\ RenamesSent \subseteq {2}
        /\ wsent[1].req = "modify"
        /\ RenamesSent # {} =>
              /\ wcall.new_uid = "other"
              /\ wsent[1].done /\ SuccessRc(wsent[1].rc)
        /\ wcall.new_uid \in {"None", "same"} => RenamesSent = {}
        /\ ~(wcall.transport /\ SuccessRc(wcall.rc)) => RenamesSent = {}

Abandons ==
    {opq[i] : i \in {i \in 1..Len(opq) : opq[i].op = "abandon"}}
    \cup {wire[i] : i \in {i \in 1..Len(wire) : wire[i].op = "abandon"}}

\* The positions of the search requests of the stream of clone c.
SearchesOf(c) ==
    {i \in 1..Len(wire) : wire[i].op = "search" /\ wire[i].c = c /\ wire[i].h = "stream"}

\* C39: with operations and streams of several clones in flight on one
\* connection, the abandon of a cleanup names the last search request of
\* its own stream, never an operation of another stream or of a client
\* handle.
C39_AbandonsOwnOperation ==
    \A a \in Abandons :
        \E i \in SearchesOf(a.c) :
            /\ wire[i].id = a.target
            /\ \A j \in SearchesOf(a.c) : j <= i

\* C39 witness: the stream of clone 1 was abandoned after clone 2 had
\* issued later operations on the connection, and the abandon names the
\* second request of the stream of clone 1.
C39_Witness ==
    \E i, j, k \in 1..Len(wire) :
        /\ i < j /\ j < k
        /\ wire[k].op = "abandon" /\ wire[k].c = 1
        /\ wire[j].c = 2
        /\ wire[i].op = "search" /\ wire[i].c = 1 /\ wire[i].id = wire[k].target
        /\ Cardinality(SearchesOf(1)) = 2

====
